---- MODULE Spec2Model ----
(***************************************************************************)
(* IC tester (IC_tester.ino): the chip catalog, the name search, the test  *)
(* vector interpreter (singleTest), the chip test (testChip) and the scan  *)
(* (scanChips), as a state machine whose steps are the console commands    *)
(* dispatched by process_data.  A second specification, SpecConsole, takes *)
(* the serial input byte by byte through processIncomingByte.              *)
(*                                                                         *)
(* Characters are one-character strings; NUL stands for the byte 0.  The   *)
(* channel operations a command performs (pinMode, digitalWrite,           *)
(* digitalRead, delay) are recorded, in program order, in the history      *)
(* variable trace, and applied to the channel registers in pins.           *)
(***************************************************************************)
EXTENDS Integers, Sequences, FiniteSets, TLC

VARIABLES
    chipData,       \* the catalog (PROGMEM text), fixed after start-up
    chipInfo,       \* 0 = NULL, else index in chipData of the current chip's pin-count field
    chipName,       \* the buffer char chipName [MAX_INPUT + 1], cells 0..MAX_INPUT
    numberOfPins,   \* byte numberOfPins
    pinsMap,        \* 0 = NULL, else N: pinsMap points to chipPinsN
    pins,           \* channel registers: [channel -> [ddr, port]]
    cmd,            \* the command that has just returned (history)
    out,            \* what the command wrote to Serial (history)
    trace,          \* the testChip executions of the command, in order (history)
    input_line,     \* the buffer static char input_line [MAX_INPUT], cells 0..MAX_INPUT-1
    input_pos,      \* static unsigned int input_pos
    serial          \* the bytes received by Serial that loop has not read yet

vars == <<chipData, chipInfo, chipName, numberOfPins, pinsMap, pins, cmd, out, trace,
          input_line, input_pos, serial>>

\* what process_data and the functions it calls leave alone
console == <<input_line, input_pos, serial>>

----------------------------------------------------------------------------
(* Bounds of the model *)

\* number of items (records or the end sentinel) in a catalog
MaxRecords == 2

\* the DUT's answers to digitalRead are chosen per command for the first
\* MaxReads reads and repeat cyclically after that
MaxReads == 2

----------------------------------------------------------------------------
(* Configuration constants of the sketch *)

MAX_INPUT == 16
MAX_PINS == 16
DUT_GROUND_A == 7
GROUND_PINA == 2
DUT_GROUND_B == 8
GROUND_PINB == 13
CLOCK_PULSE_WIDTH == 10
DATA_SETTLE_TIME == 10

NUL == "NUL"
NL == "\n"
SP == " "

\* Arduino Uno analog pin Ak as a digital channel number
A(k) == 14 + k

chipPins4 == <<10, 9, A(1), A(0)>>
chipPins6 == <<10, 9, 8, A(2), A(1), A(0)>>
chipPins8 == <<10, 9, 8, 7, A(3), A(2), A(1), A(0)>>
chipPins10 == <<10, 9, 8, 7, 6, A(4), A(3), A(2), A(1), A(0)>>
chipPins12 == <<10, 9, 8, 7, 6, 5, A(5), A(4), A(3), A(2), A(1), A(0)>>
\* (mutant) pin 7 of a 14-pin chip is put on the channel of its ground override
chipPins14_onOverride == <<10, 9, 8, 7, 6, 5, 2, 12, A(5), A(4), A(3), A(2), A(1), A(0)>>
chipPins14 == <<10, 9, 8, 7, 6, 5, 4, 12, A(5), A(4), A(3), A(2), A(1), A(0)>>
chipPins16 == <<10, 9, 8, 7, 6, 5, 4, 3, 11, 12, A(5), A(4), A(3), A(2), A(1), A(0)>>

SupportedPins == {4, 6, 8, 10, 12, 14, 16}

\* the switch (numberOfPins) of testChip and scanChips: the array pinsMap points to
PinsMapFor(n) ==
    CASE n = 4 -> chipPins4
      [] n = 6 -> chipPins6
      [] n = 8 -> chipPins8
      [] n = 10 -> chipPins10
      [] n = 12 -> chipPins12
      [] n = 14 -> chipPins14
      [] n = 16 -> chipPins16
      [] OTHER -> <<>>

\* every channel the sketch can touch
Channels == {chipPins16[i] : i \in 1..16} \cup {GROUND_PINA, GROUND_PINB}

----------------------------------------------------------------------------
(* The catalog *)

\* concatenation of a sequence of sequences
RECURSIVE Flatten(_)
Flatten(ss) ==
    IF ss = <<>> THEN <<>> ELSE Head(ss) \o Flatten(Tail(ss))

\* one record of chipData: $name, the pin-count line, the vector lines
Record(name, count, vectors) ==
    <<"$">> \o name \o <<NL>> \o count \o <<NL>>
        \o Flatten([i \in 1..Len(vectors) |-> vectors[i] \o <<NL>>])

\* the first line of the raw string, before the first record
Header == <<"0", "0", "0", "1", NL>>

\* the end-of-catalog sentinel
Sentinel == <<"&", NL>>

\* a 4-pin chip with two test cases, both with a clock pulse
RecA == Record(<<"A">>, <<"0", "4">>,
               << <<"0", "H", "C", "L">>, <<"c", "H", "1", "L">> >>)
\* a 4-pin chip with no test case, whose name begins with the name of RecA
\* and has a lower-case letter
RecAB == Record(<<"A", "b">>, <<"0", "4">>, << >>)
\* a 14-pin chip with Gnd on pins 1, 7 and 8, a rising clock on pin 3 and a
\* falling clock on pin 4, then pin 7 high, pin 8 expected low and pin 9,
\* high before, expected high
RecG == Record(<<"G">>, <<"1", "4">>,
               << <<"G", "0", "C", "c", "X", "X", "G", "G", "1", "X", "X", "X", "H", "V">>,
                  <<"X", "1", "X", "X", "X", "X", "1", "L", "H", "X", "X", "X", "X", "V">> >>)
\* a 4-pin chip whose third test case holds a character that is no directive
RecZ == Record(<<"Z">>, <<"0", "4">>,
               << <<"1", "H", "0", "X">>, <<"X", "L", "0", "1">>, <<"0", "H", "Z", "1">>,
                  <<"1", "H", "1", "H">> >>)
\* a name longer than the name buffer
LongName == [j \in 1..(MAX_INPUT + 1) |-> "S"]
\* a chip with that name whose pin count is not supported
RecU == Record(LongName, <<"0", "7">>, << <<"0", "H", "1", "L", "0", "H", "1">> >>)
\* a chip whose pin count is no number
RecN == Record(<<"U">>, <<"X", "X">>, << <<"0", "H", "1", "L">> >>)
\* a 4-pin chip whose second test case is one character too long
RecW == Record(<<"W">>, <<"0", "4">>,
               << <<"V", "L", "G", "1">>, <<"V", "L", "G", "1", "X">> >>)

\* a 4-pin chip of the same name whose second test case is one character too
\* short
RecS == Record(<<"U">>, <<"0", "4">>,
               << <<"1", "L", "0", "H">>, <<"0", "H", "1">> >>)

\* the items catalogs are built from
Pool == {RecA, RecAB, RecG, RecZ, RecU, RecN, RecW, RecS, Sentinel}

RECURSIVE ItemSeqs(_)
ItemSeqs(n) ==
    IF n = 0 THEN {<<>>}
    ELSE LET shorter == ItemSeqs(n - 1)
         IN  shorter \cup UNION {{Append(s, r) : r \in Pool \ {s[i] : i \in 1..Len(s)}} :
                                    s \in {t \in shorter : Len(t) = n - 1}}

\* the catalogs of the model: the header, then up to MaxRecords different items
Catalogs == {Header \o Flatten(s) : s \in ItemSeqs(MaxRecords)}

\* pgm_read_byte: the byte at index p of chipData (the string ends with a 0 byte)
Byte(p) == IF p \in 1..Len(chipData) THEN chipData[p] ELSE NUL

IsSpace(c) == c \in {SP, NL}

LowerCase == <<"a", "b", "c", "d", "e", "f", "g", "h", "i", "j", "k", "l", "m",
               "n", "o", "p", "q", "r", "s", "t", "u", "v", "w", "x", "y", "z">>
UpperCase == <<"A", "B", "C", "D", "E", "F", "G", "H", "I", "J", "K", "L", "M",
               "N", "O", "P", "Q", "R", "S", "T", "U", "V", "W", "X", "Y", "Z">>

toupper(c) ==
    IF \E i \in 1..Len(LowerCase) : LowerCase[i] = c
    THEN UpperCase[CHOOSE i \in 1..Len(LowerCase) : LowerCase[i] = c]
    ELSE c

Digits == <<"0", "1", "2", "3", "4", "5", "6", "7", "8", "9">>
IsDigit(c) == \E d \in 1..10 : Digits[d] = c
DigitVal(c) == (CHOOSE d \in 1..10 : Digits[d] = c) - 1

\* atoi of the two-character buffer pinsBuf, stored into a byte
atoi(b0, b1) ==
    LET v == IF IsDigit(b0) THEN (IF IsDigit(b1) THEN 10 * DigitVal(b0) + DigitVal(b1)
                                  ELSE DigitVal(b0))
             ELSE IF (IsSpace(b0) \/ b0 = "+") /\ IsDigit(b1) THEN DigitVal(b1)
             ELSE IF b0 = "-" /\ IsDigit(b1) THEN 0 - DigitVal(b1)
             ELSE 0
    IN  v % 256

Min(S) == CHOOSE x \in S : \A y \in S : x <= y
Max(S) == CHOOSE x \in S : \A y \in S : y <= x

\* the elements of a set of numbers in increasing order
Sorted(S) == [i \in 1..Cardinality(S) |-> CHOOSE x \in S : Cardinality({y \in S : y < x}) = i - 1]

\* the first index at or after p whose byte is in the set stops (the 0 byte
\* that ends the string is at Len(chipData) + 1)
RECURSIVE FirstOf(_, _)
FirstOf(p, stops) ==
    IF p > Len(chipData) \/ Byte(p) \in stops THEN p ELSE FirstOf(p + 1, stops)

\* where the do-loops of listChips, searchForChip and scanChips break:
\* the first & or 0 byte
EndOfData == Min({q \in 1..(Len(chipData) + 1) : Byte(q) \in {NUL, "&"}})

\* The do-loops read chipData byte by byte with the flag gotChip; the model
\* takes them one $ at a time.  A piece is what the loop does from a $ it
\* reads (before EndOfData) to the next $, newline, & or 0 byte: the bytes
\* between are the name being collected, and the byte at stop says how the
\* piece ends.
Pieces ==
    LET e == EndOfData
        starts == Sorted({d \in 1..(e - 1) : chipData[d] = "$"})
    IN  [i \in 1..Len(starts) |->
            LET d == starts[i]
                stop == FirstOf(d + 1, {"$", NL, NUL, "&"})
            IN  [start |-> d, stop |-> stop, ends |-> Byte(stop),
                 chars |-> [j \in 1..(stop - d - 1) |-> chipData[d + j]]]]

----------------------------------------------------------------------------
(* The chip name buffer *)

NameCells == 0..MAX_INPUT

EmptyName == [i \in NameCells |-> NUL]

\* the C string held in a buffer: the characters before the first 0 byte
CStr(buf) ==
    LET len == Min({n \in NameCells : buf[n] = NUL})
    IN  [j \in 1..len |-> buf[j - 1]]

\* (mutant) the name collected is not terminated
collect_unterminated(buf, chars, terminate) ==
    LET kept == IF Len(chars) < MAX_INPUT THEN Len(chars) ELSE MAX_INPUT
    IN  [j \in NameCells |-> IF j < kept THEN chars[j + 1] ELSE buf[j]]

\* p = chipName; nameLength = 0; then for each character of the name
\* if (nameLength < MAX_INPUT) *p++ = c; and, at a newline, *p = 0
collect(buf, chars, terminate) ==
    LET kept == IF Len(chars) < MAX_INPUT THEN Len(chars) ELSE MAX_INPUT
    IN  [j \in NameCells |->
            IF j < kept THEN chars[j + 1]
            ELSE IF j = kept /\ terminate THEN NUL
            ELSE buf[j]]

----------------------------------------------------------------------------
(* Serial output, one record per message *)

Msg(m, name, n) == [msg |-> m, name |-> name, n |-> n]

----------------------------------------------------------------------------
(* listChips *)

\* (mutant) the & is not taken as the end of the data
listChips_pastSentinel ==
    LET starts == Sorted({d \in 1..Len(chipData) : chipData[d] = "$"})
    IN  [i \in 1..Len(starts) |->
            LET q == FirstOf(starts[i] + 1, {NL, NUL})
            IN  [j \in 1..(q - starts[i] - 1) |-> chipData[starts[i] + j]]]

\* the lines listChips prints, one per chip name: at a newline read while
\* gotChip is set, the characters printed since the first $ of that line
\* (a $ itself is not printed)
listChips ==
    LET ps == Pieces
        ends == Sorted({ps[i].stop : i \in {k \in 1..Len(ps) : ps[k].ends = NL}})
    IN  [i \in 1..Len(ends) |->
            LET q == ends[i]
                first == Min({ps[k].start : k \in {m \in 1..Len(ps) :
                                 ps[m].start < q
                                 /\ \A r \in ps[m].start..(q - 1) : chipData[r] # NL}})
            IN  SelectSeq([j \in 1..(q - first - 1) |-> chipData[first + j]],
                          LAMBDA c : c # "$")]

----------------------------------------------------------------------------
(* searchForChip *)

RECURSIVE searchLoop_prefix(_, _, _, _)
RECURSIVE searchLoop_keepsPointer(_, _, _, _)
RECURSIVE searchLoop_anyCase(_, _, _, _)
RECURSIVE searchLoop(_, _, _, _)

\* (mutant) the name asked for is compared with the start of the name read
searchLoop_prefix(which, ps, i, name) ==
    IF i > Len(ps) THEN
        [found |-> FALSE, chipInfo |-> 0, chipName |-> [name EXCEPT ![0] = NUL]]
    ELSE LET collected == collect(name, ps[i].chars, ps[i].ends = NL)
         IN  IF /\ ps[i].ends = NL
                /\ Len(which) <= Len(CStr(collected))
                /\ which = SubSeq(CStr(collected), 1, Len(which))
             THEN [found |-> TRUE, chipInfo |-> ps[i].stop + 1, chipName |-> collected]
             ELSE searchLoop_prefix(which, ps, i + 1, collected)

\* (mutant) the name read is put in upper case before it is compared
searchLoop_anyCase(which, ps, i, name) ==
    IF i > Len(ps) THEN
        [found |-> FALSE, chipInfo |-> 0, chipName |-> [name EXCEPT ![0] = NUL]]
    ELSE LET collected == collect(name, ps[i].chars, ps[i].ends = NL)
         IN  IF /\ ps[i].ends = NL
                /\ which = [j \in 1..Len(CStr(collected)) |-> toupper(CStr(collected)[j])]
             THEN [found |-> TRUE, chipInfo |-> ps[i].stop + 1, chipName |-> collected]
             ELSE searchLoop_anyCase(which, ps, i + 1, collected)

\* (mutant) chipInfo is left where the loop stopped reading
searchLoop_keepsPointer(which, ps, i, name) ==
    IF i > Len(ps) THEN
        [found |-> FALSE, chipInfo |-> EndOfData + 1, chipName |-> [name EXCEPT ![0] = NUL]]
    ELSE LET collected == collect(name, ps[i].chars, ps[i].ends = NL)
         IN  IF ps[i].ends = NL /\ which = CStr(collected)
             THEN [found |-> TRUE, chipInfo |-> ps[i].stop + 1, chipName |-> collected]
             ELSE searchLoop_keepsPointer(which, ps, i + 1, collected)

\* the do-loop from the i-th $ on, with the name buffer as collected so far
searchLoop(which, ps, i, name) ==
    IF i > Len(ps) THEN
        \* c == 0 || c == '&': not found
        [found |-> FALSE, chipInfo |-> 0, chipName |-> [name EXCEPT ![0] = NUL]]
    ELSE LET collected == collect(name, ps[i].chars, ps[i].ends = NL)
         IN  IF ps[i].ends = NL /\ which = CStr(collected)
             THEN [found |-> TRUE, chipInfo |-> ps[i].stop + 1, chipName |-> collected]
             ELSE searchLoop(which, ps, i + 1, collected)

searchForChip(which) == searchLoop(which, Pieces, 1, chipName)

----------------------------------------------------------------------------
(* Channel operations *)

OpWrite(ch, v) == [op |-> "digitalWrite", ch |-> ch, val |-> v, ms |-> 0]
OpMode(ch, m) == [op |-> "pinMode", ch |-> ch, val |-> m, ms |-> 0]
OpRead(ch, v) == [op |-> "digitalRead", ch |-> ch, val |-> v, ms |-> 0]
OpDelay(what, ms) == [op |-> "delay", ch |-> -1, val |-> what, ms |-> ms]

\* the index of the last operation of ops that satisfies P, 0 if none
LastOp(ops, P(_)) ==
    LET hits == {j \in 1..Len(ops) : P(ops[j])}
    IN  IF hits = {} THEN 0 ELSE Max(hits)

\* the effect of a sequence of operations on the channel registers (data
\* direction and port bit): pinMode OUTPUT sets the direction, pinMode INPUT
\* clears direction and port bit, INPUT_PULLUP clears the direction and sets
\* the port bit, digitalWrite sets the port bit; the last one on a channel wins
ApplyOps(regs, ops) ==
    [ch \in DOMAIN regs |->
        LET mine == SelectSeq(ops, LAMBDA o : o.ch = ch)
            IsMode(o) == o.op = "pinMode"
            IsPort(o) == o.op = "digitalWrite" \/ (o.op = "pinMode" /\ o.val # "OUTPUT")
            m == LastOp(mine, IsMode)
            w == LastOp(mine, IsPort)
        IN  [ddr |-> IF m = 0 THEN regs[ch].ddr ELSE mine[m].val = "OUTPUT",
             port |-> IF w = 0 THEN regs[ch].port
                      ELSE IF mine[w].op = "digitalWrite" THEN mine[w].val
                      ELSE IF mine[w].val = "INPUT_PULLUP" THEN "HIGH"
                      ELSE "LOW"]]

\* the registers after the first j operations of ops
RegsAfter(regs, ops, j) == ApplyOps(regs, SubSeq(ops, 1, j))

Floating == [ddr |-> FALSE, port |-> "LOW"]
PulledUp == [ddr |-> FALSE, port |-> "HIGH"]
DrivenLow == [ddr |-> TRUE, port |-> "LOW"]
DrivenHigh == [ddr |-> TRUE, port |-> "HIGH"]

\* the k-th digitalRead of a command returns rd[k], cyclically
ReadAt(rd, k) == rd[((k - 1) % MaxReads) + 1]

\* for (i = 0; i < numberOfPins; i++): the operations body(i) of the pins
\* 1..n, one pin after the other
ForEachPin(n, body(_)) == Flatten([i \in 1..n |-> body(i)])

----------------------------------------------------------------------------
(* singleTest *)

\* (mutant) the ground override of pin 7 is used for a Gnd on any pin but pin 8
groundPhase_overrideAnywhere(testLine, n, map) ==
    LET body(i) ==
            IF testLine[i] = "G"
            THEN <<OpWrite(map[i], "LOW"), OpMode(map[i], "OUTPUT")>>
                 \o (IF i = DUT_GROUND_B
                     THEN <<OpWrite(GROUND_PINB, "LOW"), OpMode(GROUND_PINB, "OUTPUT")>>
                     ELSE <<OpWrite(GROUND_PINA, "LOW"), OpMode(GROUND_PINA, "OUTPUT")>>)
            ELSE <<>>
    IN  ForEachPin(n, body)

\* set ground to LOW
groundPhase(testLine, n, map) ==
    LET body(i) ==
            IF testLine[i] = "G"
            THEN <<OpWrite(map[i], "LOW"), OpMode(map[i], "OUTPUT")>>
                 \o (IF i = DUT_GROUND_A
                     THEN <<OpWrite(GROUND_PINA, "LOW"), OpMode(GROUND_PINA, "OUTPUT")>>
                     ELSE IF i = DUT_GROUND_B
                     THEN <<OpWrite(GROUND_PINB, "LOW"), OpMode(GROUND_PINB, "OUTPUT")>>
                     ELSE <<>>)
            ELSE <<>>
    IN  ForEachPin(n, body)

\* set power to HIGH
powerPhase(testLine, n, map) ==
    LET body(i) ==
            IF testLine[i] = "V"
            THEN <<OpWrite(map[i], "HIGH"), OpMode(map[i], "OUTPUT")>>
            ELSE <<>>
    IN  ForEachPin(n, body)

\* set input pins
inputPhase(testLine, n, map) ==
    LET body(i) ==
            IF testLine[i] = "0" \/ testLine[i] = "C"
            THEN <<OpWrite(map[i], "LOW"), OpMode(map[i], "OUTPUT")>>
            ELSE IF testLine[i] = "1" \/ testLine[i] = "c"
            THEN <<OpWrite(map[i], "HIGH"), OpMode(map[i], "OUTPUT")>>
            ELSE <<>>
    IN  ForEachPin(n, body)

\* (mutant) a pin to ignore is made an input
outputPhase_floatsX(testLine, n, map) ==
    LET body(i) ==
            IF testLine[i] = "H"
            THEN <<OpWrite(map[i], "LOW"), OpMode(map[i], "OUTPUT"), OpMode(map[i], "INPUT")>>
            ELSE IF testLine[i] = "L"
            THEN <<OpMode(map[i], "INPUT_PULLUP")>>
            ELSE IF testLine[i] = "X"
            THEN <<OpMode(map[i], "INPUT")>>
            ELSE <<>>
    IN  ForEachPin(n, body)

\* (mutant) a pin expected high is made an input without the write of LOW
outputPhase_noDrain(testLine, n, map) ==
    LET body(i) ==
            IF testLine[i] = "H"
            THEN <<OpMode(map[i], "INPUT")>>
            ELSE IF testLine[i] = "L"
            THEN <<OpMode(map[i], "INPUT_PULLUP")>>
            ELSE <<>>
    IN  ForEachPin(n, body)

\* prepare output pins
outputPhase(testLine, n, map) ==
    LET body(i) ==
            IF testLine[i] = "H"
            THEN <<OpWrite(map[i], "LOW"), OpMode(map[i], "OUTPUT"), OpMode(map[i], "INPUT")>>
            ELSE IF testLine[i] = "L"
            THEN <<OpMode(map[i], "INPUT_PULLUP")>>
            ELSE <<>>
    IN  ForEachPin(n, body)

\* byte clocks: the number of C and c directives
clocks(testLine, n) == Cardinality({i \in 1..n : testLine[i] \in {"C", "c"}})

\* (mutant) the delay and the putting back are done whatever the number of clocks
pulsePhase_always(testLine, n, map) ==
    LET edge(i) ==
            IF testLine[i] = "C" THEN <<OpWrite(map[i], "HIGH")>>
            ELSE IF testLine[i] = "c" THEN <<OpWrite(map[i], "LOW")>>
            ELSE <<>>
        back(i) ==
            IF testLine[i] = "C" THEN <<OpWrite(map[i], "LOW")>>
            ELSE IF testLine[i] = "c" THEN <<OpWrite(map[i], "HIGH")>>
            ELSE <<>>
    IN  ForEachPin(n, edge)
            \o <<OpDelay("CLOCK_PULSE_WIDTH", CLOCK_PULSE_WIDTH)>> \o ForEachPin(n, back)

\* (mutant) every clock pin is pulsed by itself, with a wait of its own
pulsePhase_onePinAtATime(testLine, n, map) ==
    LET pulse(i) ==
            IF testLine[i] = "C"
            THEN <<OpWrite(map[i], "HIGH"), OpDelay("CLOCK_PULSE_WIDTH", CLOCK_PULSE_WIDTH),
                   OpWrite(map[i], "LOW")>>
            ELSE IF testLine[i] = "c"
            THEN <<OpWrite(map[i], "LOW"), OpDelay("CLOCK_PULSE_WIDTH", CLOCK_PULSE_WIDTH),
                   OpWrite(map[i], "HIGH")>>
            ELSE <<>>
    IN  ForEachPin(n, pulse)

\* pulse clock, and put it back after CLOCK_PULSE_WIDTH if there was any
pulsePhase(testLine, n, map) ==
    LET edge(i) ==
            IF testLine[i] = "C" THEN <<OpWrite(map[i], "HIGH")>>
            ELSE IF testLine[i] = "c" THEN <<OpWrite(map[i], "LOW")>>
            ELSE <<>>
        back(i) ==
            IF testLine[i] = "C" THEN <<OpWrite(map[i], "LOW")>>
            ELSE IF testLine[i] = "c" THEN <<OpWrite(map[i], "HIGH")>>
            ELSE <<>>
    IN  ForEachPin(n, edge)
            \o (IF clocks(testLine, n) # 0
                THEN <<OpDelay("CLOCK_PULSE_WIDTH", CLOCK_PULSE_WIDTH)>> \o ForEachPin(n, back)
                ELSE <<>>)

\* let the chip settle into its correct outputs
settlePhase == <<OpDelay("DATA_SETTLE_TIME", DATA_SETTLE_TIME)>>

\* (mutant) only the pins expected HIGH are counted as failures
readPhase_highOnly(testLine, n, map, verbose, rd, k) ==
    LET sampled == {i \in 1..n : testLine[i] = "H" \/ testLine[i] = "L"}
        value(i) == ReadAt(rd, k + Cardinality({j \in sampled : j <= i}))
        read(i) == IF i \in sampled THEN <<OpRead(map[i], value(i))>> ELSE <<>>
    IN  [failed |-> Cardinality({i \in sampled : testLine[i] = "H" /\ value(i) # "HIGH"}),
         ops |-> ForEachPin(n, read),
         out |-> <<>>,
         reads |-> k + Cardinality(sampled)]

\* (mutant) a pin expected LOW fails when it is read LOW
readPhase_lowInverted(testLine, n, map, verbose, rd, k) ==
    LET sampled == {i \in 1..n : testLine[i] = "H" \/ testLine[i] = "L"}
        value(i) == ReadAt(rd, k + Cardinality({j \in sampled : j <= i}))
        bad(i) == (testLine[i] = "H" /\ value(i) # "HIGH")
                      \/ (testLine[i] = "L" /\ value(i) = "LOW")
        read(i) == IF i \in sampled THEN <<OpRead(map[i], value(i))>> ELSE <<>>
    IN  [failed |-> Cardinality({i \in sampled : bad(i)}),
         ops |-> ForEachPin(n, read),
         out |-> <<>>,
         reads |-> k + Cardinality(sampled)]

\* read results: k reads were made before this test case; pin i is read if
\* its directive is H or L, and fails if the value read is not the expected one
readPhase(testLine, n, map, verbose, rd, k) ==
    LET sampled == {i \in 1..n : testLine[i] = "H" \/ testLine[i] = "L"}
        value(i) == ReadAt(rd, k + Cardinality({j \in sampled : j <= i}))
        bad(i) == (testLine[i] = "H" /\ value(i) # "HIGH")
                      \/ (testLine[i] = "L" /\ value(i) # "LOW")
        read(i) == IF i \in sampled THEN <<OpRead(map[i], value(i))>> ELSE <<>>
        told(i) == IF i \in sampled /\ bad(i)
                   THEN <<[op |-> "print", ch |-> i, val |-> "", ms |-> 0]>> ELSE <<>>
        prints == ForEachPin(n, told)
    IN  [failed |-> Cardinality({i \in sampled : bad(i)}),
         ops |-> ForEachPin(n, read),
         out |-> IF verbose
                 THEN [j \in 1..Len(prints) |-> Msg("pin mismatch", testLine, prints[j].ch)]
                 ELSE <<>>,
         reads |-> k + Cardinality(sampled)]

\* (mutant) the supply rail is set before the grounds
singleTestSetup_powerFirst(testLine, n, map) ==
    powerPhase(testLine, n, map) \o groundPhase(testLine, n, map)
        \o inputPhase(testLine, n, map) \o outputPhase(testLine, n, map)
        \o pulsePhase(testLine, n, map) \o settlePhase

\* (mutant) the settle delay is made only when there was a clock pulse
singleTestSetup_settleIfClocks(testLine, n, map) ==
    groundPhase(testLine, n, map) \o powerPhase(testLine, n, map)
        \o inputPhase(testLine, n, map) \o outputPhase(testLine, n, map)
        \o pulsePhase(testLine, n, map)
        \o (IF clocks(testLine, n) # 0 THEN settlePhase ELSE <<>>)

\* the operations of singleTest before the results are read
singleTestSetup(testLine, n, map) ==
    groundPhase(testLine, n, map) \o powerPhase(testLine, n, map)
        \o inputPhase(testLine, n, map) \o outputPhase(testLine, n, map)
        \o pulsePhase(testLine, n, map) \o settlePhase

\* what singleTest leaves: its operations, its failure count, its output
singleTestResult(testLine, testNumber, verbose, setup, r) ==
    [testLine |-> testLine,
     testNumber |-> testNumber,
     ops |-> setup \o r.ops,
     failed |-> r.failed,
     reads |-> r.reads,
     out |-> IF verbose
             THEN <<Msg("Testing case", testLine, testNumber + 1)>> \o r.out
                  \o <<IF r.failed # 0
                       THEN Msg("Failed test", testLine, testNumber + 1)
                       ELSE Msg("ok", testLine, testNumber + 1)>>
             ELSE <<>>]

\* one test case; k reads were made before it
singleTest(testLine, testNumber, verbose, n, map, rd, k) ==
    singleTestResult(testLine, testNumber, verbose, singleTestSetup(testLine, n, map),
                     readPhase(testLine, n, map, verbose, rd, k))

\* (mutant) the two ground pins are left as they are
setAllPinsToInput_chipPinsOnly(n, map) == [i \in 1..n |-> OpMode(map[i], "INPUT")]

\* set all chip pins (plus our two ground pins) to INPUT
setAllPinsToInput(n, map) ==
    [i \in 1..n |-> OpMode(map[i], "INPUT")]
        \o <<OpMode(GROUND_PINA, "INPUT"), OpMode(GROUND_PINB, "INPUT")>>

----------------------------------------------------------------------------
(* testChip *)

Directives == {"H", "L", "V", "G", "0", "1", "C", "c", "X"}

\* while (isspace (pgm_read_byte (p))) p++
RECURSIVE skipSpace(_)
skipSpace(p) == IF IsSpace(Byte(p)) THEN skipSpace(p + 1) ELSE p

\* (mutant) a character that is no directive is taken into the test line
readLine_lenient(p, n) ==
    LET c0 == Byte(p)
    IN  IF c0 = "$" \/ c0 = NUL \/ c0 = "&" THEN [status |-> "done", at |-> 0, line |-> <<>>]
        ELSE [status |-> "ok", at |-> n, line |-> [j \in 1..n |-> Byte(p + j - 1)]]

\* (mutant) a $ in the first position does not end the chip
readLine_pastRecordStart(p, n) ==
    LET c0 == Byte(p)
        invalid == {i \in 0..(n - 1) : Byte(p + i) \notin Directives}
    IN  IF c0 = NUL \/ c0 = "&" THEN [status |-> "done", at |-> 0, line |-> <<>>]
        ELSE IF invalid # {}
        THEN [status |-> "bad", at |-> Min(invalid),
              line |-> [j \in 1..Min(invalid) |-> Byte(p + j - 1)]]
        ELSE [status |-> "ok", at |-> n, line |-> [j \in 1..n |-> Byte(p + j - 1)]]

\* the for loop that extracts one test line of n characters starting at p:
\* "done" at a $, & or 0 byte in the first position, "bad" at the first
\* character that is no directive, else "ok" with the line
readLine(p, n) ==
    LET c0 == Byte(p)
        invalid == {i \in 0..(n - 1) : Byte(p + i) \notin Directives}
    IN  IF c0 = "$" \/ c0 = NUL \/ c0 = "&" THEN [status |-> "done", at |-> 0, line |-> <<>>]
        ELSE IF invalid # {}
        THEN [status |-> "bad", at |-> Min(invalid),
              line |-> [j \in 1..Min(invalid) |-> Byte(p + j - 1)]]
        ELSE [status |-> "ok", at |-> n, line |-> [j \in 1..n |-> Byte(p + j - 1)]]

\* (mutant) a scan reports the chip whatever the number of failures
doneOutput_always(verbose, name, failures) ==
    IF verbose
    THEN <<IF failures # 0 THEN Msg("Done - FAILED", name, failures)
           ELSE Msg("Done - passed", name, 0)>>
    ELSE <<Msg("detected", name, 0)>>

\* what testChip prints after the last test case
doneOutput(verbose, name, failures) ==
    IF verbose
    THEN <<IF failures # 0 THEN Msg("Done - FAILED", name, failures)
           ELSE Msg("Done - passed", name, 0)>>
    ELSE IF failures = 0 THEN <<Msg("detected", name, 0)>>
    ELSE <<>>

\* the result of a testChip execution that got past the pin-count switch
TestEnd(result, info, name, verbose, n, runs, failures, post, k, o) ==
    [result |-> result, info |-> info, name |-> name, verbose |-> verbose,
     numberOfPins |-> n, pinsMap |-> n,
     pre |-> setAllPinsToInput(n, PinsMapFor(n)),
     runs |-> runs, post |-> post, failures |-> failures, reads |-> k, out |-> o]

\* the while (true) loop over the test cases, from position p: testLoop
\* skips the white space, testCase takes the line l that starts at q, and
\* testNext goes on after the test case t
RECURSIVE testLoop(_, _, _, _, _, _, _, _, _, _)
RECURSIVE testCase(_, _, _, _, _, _, _, _, _, _, _)
RECURSIVE testNext(_, _, _, _, _, _, _, _, _, _)

testNext(q, testNumber, failures, runs, verbose, n, info, name, rd, t) ==
    testLoop(q + n, testNumber + 1, failures + t.failed, Append(runs, t), t.reads,
             verbose, n, info, name, rd)

\* (mutant) what follows the test line is not looked at
testCase_anySeparator(q, l, testNumber, failures, runs, k, verbose, n, info, name, rd) ==
    LET map == PinsMapFor(n)
        head == IF verbose THEN <<Msg("Testing", name, n)>> ELSE <<>>
        vout == Flatten([j \in 1..Len(runs) |-> runs[j].out])
    IN  IF l.status = "done" THEN
            TestEnd("Done", info, name, verbose, n, runs, failures,
                    setAllPinsToInput(n, map), k,
                    head \o vout \o doneOutput(verbose, name, failures))
        ELSE IF l.status = "bad" THEN
            TestEnd("Unexpected test data", info, name, verbose, n, runs, failures,
                    setAllPinsToInput(n, map), k,
                    head \o vout \o <<Msg("Unexpected test data", name, testNumber + 1)>>)
        ELSE testNext(q, testNumber, failures, runs, verbose, n, info, name, rd,
                      singleTest(l.line, testNumber, verbose, n, map, rd, k))

testCase(q, l, testNumber, failures, runs, k, verbose, n, info, name, rd) ==
    LET map == PinsMapFor(n)
        head == IF verbose THEN <<Msg("Testing", name, n)>> ELSE <<>>
        vout == Flatten([j \in 1..Len(runs) |-> runs[j].out])
    IN  IF l.status = "done" THEN
            TestEnd("Done", info, name, verbose, n, runs, failures,
                    setAllPinsToInput(n, map), k,
                    head \o vout \o doneOutput(verbose, name, failures))
        ELSE IF l.status = "bad" THEN
            TestEnd("Unexpected test data", info, name, verbose, n, runs, failures,
                    setAllPinsToInput(n, map), k,
                    head \o vout \o <<Msg("Unexpected test data", name, testNumber + 1)>>)
        ELSE IF ~IsSpace(Byte(q + n)) THEN
            TestEnd("Expected space/newline", info, name, verbose, n, runs, failures,
                    setAllPinsToInput(n, map), k,
                    head \o vout \o <<Msg("Expected space/newline", name, testNumber + 1)>>)
        ELSE testNext(q, testNumber, failures, runs, verbose, n, info, name, rd,
                      singleTest(l.line, testNumber, verbose, n, map, rd, k))

testLoop(p, testNumber, failures, runs, k, verbose, n, info, name, rd) ==
    testCase(skipSpace(p), readLine(skipSpace(p), n), testNumber, failures, runs, k,
             verbose, n, info, name, rd)

\* (mutant) a pin count that is not supported is taken as 4
testChip_defaultLayout(verbose, info, name, rd, k) ==
    IF info = 0 THEN
        [result |-> "No current chip", info |-> info, name |-> name, verbose |-> verbose,
         numberOfPins |-> numberOfPins, pinsMap |-> pinsMap,
         pre |-> <<>>, runs |-> <<>>, post |-> <<>>, failures |-> 0, reads |-> k,
         out |-> <<Msg("No current chip", <<>>, 0)>>]
    ELSE LET n == atoi(Byte(info), Byte(info + 1))
         IN  testLoop(info + 2, 0, 0, <<>>, k, verbose,
                      IF n \in SupportedPins THEN n ELSE 4, info, name, rd)

\* (mutant) the test for a current chip is left out
testChip_noGuard(verbose, info, name, rd, k) ==
    LET n == atoi(Byte(info), Byte(info + 1))
        head == IF verbose THEN <<Msg("Testing", name, n)>> ELSE <<>>
    IN  IF n \notin SupportedPins THEN
            [result |-> "Unsupported number of pins", info |-> info, name |-> name,
             verbose |-> verbose, numberOfPins |-> n, pinsMap |-> pinsMap,
             pre |-> <<>>, runs |-> <<>>, post |-> <<>>, failures |-> 0, reads |-> k,
             out |-> head \o <<Msg("Unsupported number of pins", name, n)>>]
        ELSE testLoop(info + 2, 0, 0, <<>>, k, verbose, n, info, name, rd)

\* do all tests for the chip at info (the value of chipInfo); k reads were made before
testChip(verbose, info, name, rd, k) ==
    IF info = 0 THEN
        [result |-> "No current chip", info |-> info, name |-> name, verbose |-> verbose,
         numberOfPins |-> numberOfPins, pinsMap |-> pinsMap,
         pre |-> <<>>, runs |-> <<>>, post |-> <<>>, failures |-> 0, reads |-> k,
         out |-> <<Msg("No current chip", <<>>, 0)>>]
    ELSE LET n == atoi(Byte(info), Byte(info + 1))
             head == IF verbose THEN <<Msg("Testing", name, n)>> ELSE <<>>
         IN  IF n \notin SupportedPins THEN
                 [result |-> "Unsupported number of pins", info |-> info, name |-> name,
                  verbose |-> verbose, numberOfPins |-> n, pinsMap |-> pinsMap,
                  pre |-> <<>>, runs |-> <<>>, post |-> <<>>, failures |-> 0, reads |-> k,
                  out |-> head \o <<Msg("Unsupported number of pins", name, n)>>]
             ELSE testLoop(info + 2, 0, 0, <<>>, k, verbose, n, info, name, rd)

\* the channel operations of one testChip execution, in program order
TestOps(t) == t.pre \o Flatten([j \in 1..Len(t.runs) |-> t.runs[j].ops]) \o t.post

----------------------------------------------------------------------------
(* scanChips *)

\* the do-loop from the i-th $ on; g holds numberOfPins and pinsMap, and
\* scanNext goes on after the test t of the chip of the i-th $
RECURSIVE scanLoop(_, _, _, _, _, _, _, _)
RECURSIVE scanNext(_, _, _, _, _, _, _, _)

\* (mutant) the chip tested last stays the current chip
scanEnd_keepsCursor(name, count, tests, g) ==
    [completed |-> TRUE,
     chipInfo |-> IF tests = <<>> THEN 0 ELSE tests[Len(tests)].info,
     chipName |-> name, count |-> count,
     tests |-> tests, numberOfPins |-> g.numberOfPins, pinsMap |-> g.pinsMap,
     out |-> Flatten([j \in 1..Len(tests) |-> tests[j].out])
               \o <<Msg("Chip scan completed", <<>>, count)>>]

\* after the do-loop: chipInfo = NULL and the summary
scanEnd(name, count, tests, g) ==
    [completed |-> TRUE, chipInfo |-> 0, chipName |-> name, count |-> count,
     tests |-> tests, numberOfPins |-> g.numberOfPins, pinsMap |-> g.pinsMap,
     out |-> Flatten([j \in 1..Len(tests) |-> tests[j].out])
               \o <<Msg("Chip scan completed", <<>>, count)>>]

scanNext(pinsArg, ps, i, name, count, tests, rd, t) ==
    scanLoop(pinsArg, ps, i + 1, name, count + 1, Append(tests, t), rd,
             [numberOfPins |-> t.numberOfPins, pinsMap |-> t.pinsMap])

scanLoop(pinsArg, ps, i, name, count, tests, rd, g) ==
    IF i > Len(ps) THEN
        \* c == 0 || c == '&': the scan is complete
        scanEnd(name, count, tests, g)
    ELSE LET collected == collect(name, ps[i].chars, ps[i].ends = NL)
             next == ps[i].stop + 1
             n == atoi(Byte(next), Byte(next + 1))
         IN  IF ps[i].ends # NL THEN
                 scanLoop(pinsArg, ps, i + 1, collected, count, tests, rd, g)
             ELSE IF n \notin SupportedPins THEN
                 [completed |-> FALSE, chipInfo |-> next, chipName |-> collected,
                  count |-> count, tests |-> tests,
                  numberOfPins |-> n, pinsMap |-> g.pinsMap,
                  out |-> Flatten([j \in 1..Len(tests) |-> tests[j].out])
                            \o <<Msg("Unsupported number of pins", CStr(collected), n)>>]
             ELSE IF pinsArg = n THEN
                 scanNext(pinsArg, ps, i, collected, count, tests, rd,
                          testChip(FALSE, next, CStr(collected), rd,
                                   IF tests = <<>> THEN 0 ELSE tests[Len(tests)].reads))
             ELSE scanLoop(pinsArg, ps, i + 1, collected, count, tests, rd,
                           [numberOfPins |-> n, pinsMap |-> n])

scanChips(pinsArg, rd) ==
    scanLoop(pinsArg, Pieces, 1, chipName, 0, <<>>, rd,
             [numberOfPins |-> numberOfPins, pinsMap |-> pinsMap])

----------------------------------------------------------------------------
(* The console commands (process_data) *)

Readings == [1..MaxReads -> {"LOW", "HIGH"}]

\* the lines the user types for a chip code (before the newline)
Requests == {<<"a">>, <<"A", " ", "b">>, <<"U">>, LongName}

\* input_line when the newline comes, after processIncomingByte has taken
\* the bytes typed: carriage returns and spaces are discarded, the others
\* are kept in upper case while there is room
inputLine(typed) ==
    LET kept == SelectSeq(typed, LAMBDA c : c \notin {"\r", SP})
    IN  [j \in 1..(IF Len(kept) < MAX_INPUT - 1 THEN Len(kept) ELSE MAX_INPUT - 1)
            |-> toupper(kept[j])]

\* what process_data takes as a command rather than as a chip code
CommandWords ==
    {<<"L">>, <<"T">>, <<"S", "4">>, <<"S", "6">>, <<"S", "8">>, <<"S", "1", "0">>,
     <<"S", "1", "2">>, <<"S", "1", "4">>, <<"S", "1", "6">>, <<>>}

\* the summary of a command kept as history
\* (located, kept for a chip code: a chip was located when the code was entered)
\* (typed, kept for a chip code: the line as the user typed it)
Command(kind, which, n, found) ==
    [kind |-> kind, which |-> which, pins |-> n, found |-> found,
     located |-> kind = "locate" /\ chipInfo # 0, typed |-> <<>>]

NoCommand ==
    [kind |-> "none", which |-> <<>>, pins |-> 0, found |-> FALSE, located |-> FALSE,
     typed |-> <<>>]

\* the pin counts the user scans for
ScanSizes == {4, 14}

AllTestOps(tests) == Flatten([j \in 1..Len(tests) |-> TestOps(tests[j])])

LineCells == 0..(MAX_INPUT - 1)

EmptyLine == [i \in LineCells |-> NUL]

Init ==
    /\ chipData \in Catalogs
    /\ chipInfo = 0
    /\ chipName = EmptyName
    /\ numberOfPins = 0
    /\ pinsMap = 0
    /\ pins = [ch \in Channels |-> Floating]
    /\ cmd = NoCommand
    /\ out = <<>>
    /\ trace = <<>>
    /\ input_line = EmptyLine
    /\ input_pos = 0
    /\ serial = <<>>

\* "L"
CmdList ==
    /\ cmd' = Command("list", <<>>, 0, FALSE)
    /\ \E names \in {listChips} :
           out' = [j \in 1..Len(names) |-> Msg("name", names[j], 0)]
    /\ trace' = <<>>
    /\ UNCHANGED <<chipData, chipInfo, chipName, numberOfPins, pinsMap, pins>>

\* searchForChip (data), for the line typed
Locate(typed, which) ==
    /\ \E r \in {searchForChip(which)} :
           /\ chipInfo' = r.chipInfo
           /\ chipName' = r.chipName
           /\ cmd' = [Command("locate", which, 0, r.found) EXCEPT !.typed = typed]
           /\ out' = <<Msg(IF r.found THEN "found" ELSE "not found", which, 0)>>
    /\ trace' = <<>>
    /\ UNCHANGED <<chipData, numberOfPins, pinsMap, pins>>

\* a chip code
CmdLocate ==
    \E typed \in Requests : \E which \in {inputLine(typed)} :
        /\ which \notin CommandWords
        /\ Locate(typed, which)

\* (mutant) the test reads the data through chipInfo itself
CmdTest_movesCursor ==
    \E rd \in Readings :
        \E t \in {testChip(TRUE, chipInfo, CStr(chipName), rd, 0)} :
            /\ numberOfPins' = t.numberOfPins
            /\ pinsMap' = t.pinsMap
            /\ pins' = ApplyOps(pins, TestOps(t))
            /\ cmd' = Command("test", <<>>, 0, t.result = "Done")
                /\ out' = t.out
            /\ trace' = <<t>>
            /\ chipInfo' = IF chipInfo = 0 THEN 0 ELSE chipInfo + 2
            /\ UNCHANGED <<chipData, chipName>>

\* "T"
CmdTest ==
    \E rd \in Readings :
        \E t \in {testChip(TRUE, chipInfo, CStr(chipName), rd, 0)} :
            /\ numberOfPins' = t.numberOfPins
            /\ pinsMap' = t.pinsMap
            /\ pins' = ApplyOps(pins, TestOps(t))
            /\ cmd' = Command("test", <<>>, 0, t.result = "Done")
                /\ out' = t.out
            /\ trace' = <<t>>
            /\ UNCHANGED <<chipData, chipInfo, chipName>>

\* scanChips (n)
Scan(n) ==
    \E rd \in Readings :
        \E s \in {scanChips(n, rd)} :
            /\ chipInfo' = s.chipInfo
            /\ chipName' = s.chipName
            /\ numberOfPins' = s.numberOfPins
            /\ pinsMap' = s.pinsMap
            /\ pins' = ApplyOps(pins, AllTestOps(s.tests))
            /\ cmd' = Command("scan", <<>>, n, s.completed)
                /\ out' = s.out
            /\ trace' = s.tests
            /\ UNCHANGED chipData

\* "S4" .. "S16"
CmdScan == \E n \in ScanSizes : Scan(n)

\* one command, as process_data dispatches it
Next ==
    \/ CmdList /\ UNCHANGED console
    \/ CmdLocate /\ UNCHANGED console
    \/ CmdTest /\ UNCHANGED console
    \/ CmdScan /\ UNCHANGED console

Spec == Init /\ [][Next]_vars

----------------------------------------------------------------------------
(* The console, byte by byte (loop, processIncomingByte, process_data) *)

\* a 16-pin chip with one test case, that fills the test line buffer
RecP == Record(<<"U">>, <<"1", "6">>,
               << <<"0", "H", "1", "L", "X", "X", "X", "G",
                    "X", "X", "X", "X", "X", "X", "X", "V">> >>)
\* a chip declared with 18 pins, more than a test line holds
RecQ == Record(<<"A">>, <<"1", "8">>,
               << <<"0", "H", "1", "L", "X", "X", "X", "X", "G",
                    "X", "X", "X", "X", "X", "X", "X", "X", "V">> >>)

\* the items the catalogs of SpecConsole are built from
ConsolePool == {RecP, RecQ, RecU, Sentinel}

RECURSIVE ConsoleItemSeqs(_)
ConsoleItemSeqs(n) ==
    IF n = 0 THEN {<<>>}
    ELSE LET shorter == ConsoleItemSeqs(n - 1)
         IN  shorter \cup UNION {{Append(s, r) : r \in ConsolePool \ {s[i] : i \in 1..Len(s)}} :
                                    s \in {t \in shorter : Len(t) = n - 1}}

ConsoleCatalogs == {Header \o Flatten(s) : s \in ConsoleItemSeqs(MaxRecords)}

\* the lines the user sends, each ended by a newline
Lines ==
    {<<"L", NL>>, <<"T", "\r", NL>>, <<"S", "1", "6", NL>>, <<NL>>}
        \cup {r \o <<NL>> : r \in Requests}

\* the C string held in input_line: the characters before the first 0 byte
LineStr(line) ==
    LET zeros == {n \in DOMAIN line : line[n] = NUL}
        len == IF zeros = {} THEN Cardinality(DOMAIN line) ELSE Min(zeros)
    IN  [j \in 1..len |-> line[j - 1]]

\* input_line [pos] = c
Store(line, pos, c) == [j \in DOMAIN line |-> IF j = pos THEN c ELSE line[j]]

\* (mutant) the byte is added whether or not there is room
addByte_unguarded(line, pos, inByte) ==
    [line |-> Store(line, pos, toupper(inByte)), pos |-> pos + 1]

\* default: keep adding if not full, allowing for the terminating null byte
addByte(line, pos, inByte) ==
    IF pos < MAX_INPUT - 1
    THEN [line |-> Store(line, pos, toupper(inByte)), pos |-> pos + 1]
    ELSE [line |-> line, pos |-> pos]

\* the pin count of the command Sn, 0 if data is no such command
ScanWord(data) ==
    IF data = <<"S", "4">> THEN 4
    ELSE IF data = <<"S", "6">> THEN 6
    ELSE IF data = <<"S", "8">> THEN 8
    ELSE IF data = <<"S", "1", "0">> THEN 10
    ELSE IF data = <<"S", "1", "2">> THEN 12
    ELSE IF data = <<"S", "1", "4">> THEN 14
    ELSE IF data = <<"S", "1", "6">> THEN 16
    ELSE 0

\* here to process incoming serial data after a newline received
process_data(data) ==
    IF data = <<"L">> THEN CmdList
    ELSE IF data = <<"T">> THEN CmdTest
    ELSE IF ScanWord(data) # 0 THEN Scan(ScanWord(data))
    ELSE IF data = <<>>
    THEN UNCHANGED <<chipData, chipInfo, chipName, numberOfPins, pinsMap, pins,
                     cmd, out, trace>>
    ELSE Locate(data, data)

\* the user sends a line once the line before it has been read
Type ==
    /\ serial = <<>>
    /\ \E l \in Lines : serial' = l
    /\ UNCHANGED <<chipData, chipInfo, chipName, numberOfPins, pinsMap, pins,
                   cmd, out, trace, input_line, input_pos>>

\* processIncomingByte (Serial.read ())
processIncomingByte ==
    /\ serial # <<>>
    /\ serial' = Tail(serial)
    /\ LET inByte == Head(serial)
       IN  IF inByte = NL THEN
               /\ input_line' = Store(input_line, input_pos, NUL)
               /\ process_data(LineStr(Store(input_line, input_pos, NUL)))
               /\ input_pos' = 0
           ELSE IF inByte \in {"\r", SP} THEN
               UNCHANGED <<chipData, chipInfo, chipName, numberOfPins, pinsMap, pins,
                           cmd, out, trace, input_line, input_pos>>
           ELSE
               /\ \E b \in {addByte(input_line, input_pos, inByte)} :
                      input_line' = b.line /\ input_pos' = b.pos
               /\ UNCHANGED <<chipData, chipInfo, chipName, numberOfPins, pinsMap,
                              pins, cmd, out, trace>>

InitConsole ==
    /\ chipData \in ConsoleCatalogs
    /\ chipInfo = 0
    /\ chipName = EmptyName
    /\ numberOfPins = 0
    /\ pinsMap = 0
    /\ pins = [ch \in Channels |-> Floating]
    /\ cmd = NoCommand
    /\ out = <<>>
    /\ trace = <<>>
    /\ input_line = EmptyLine
    /\ input_pos = 0
    /\ serial = <<>>

NextConsole == Type \/ processIncomingByte

SpecConsole == InitConsole /\ [][NextConsole]_vars

----------------------------------------------------------------------------
(* Notions the properties are stated with *)

AllFloating(regs) == \A ch \in Channels : regs[ch] = Floating

\* the test cases executed by the command that has just returned
Runs == UNION {{trace[j].runs[m] : m \in 1..Len(trace[j].runs)} : j \in 1..Len(trace)}

\* the DUT pins of test case r whose directive is in D, and their channels
PinsWith(r, D) == {i \in 1..Len(r.testLine) : r.testLine[i] \in D}
ChansOf(r, D) == {PinsMapFor(Len(r.testLine))[i] : i \in PinsWith(r, D)}

\* the channels that ground DUT pins of r: the G pins, and the override
\* channel of pin 7 or 8 when that pin is a G pin
GroundChans(r) ==
    ChansOf(r, {"G"})
        \cup (IF DUT_GROUND_A \in PinsWith(r, {"G"}) THEN {GROUND_PINA} ELSE {})
        \cup (IF DUT_GROUND_B \in PinsWith(r, {"G"}) THEN {GROUND_PINB} ELSE {})

\* the indexes of the operations of r of the kinds in K on the channels in chans
OpsOn(r, K, chans) == {j \in 1..Len(r.ops) : r.ops[j].op \in K /\ r.ops[j].ch \in chans}

Setting == {"digitalWrite", "pinMode"}

Before(X, Y) == \A x \in X, y \in Y : x < y

\* the pulse edges of r: a C pin written HIGH, a c pin written LOW
Edges(r) ==
    {j \in OpsOn(r, {"digitalWrite"}, ChansOf(r, {"C"})) : r.ops[j].val = "HIGH"}
        \cup {j \in OpsOn(r, {"digitalWrite"}, ChansOf(r, {"c"})) : r.ops[j].val = "LOW"}

\* the registers of channel ch after the operations of r up to the last one in X
\* (from floating inputs: the operations in X set both direction and level)
AfterLast(r, X, ch) == RegsAfter([c \in Channels |-> Floating], r.ops, Max(X))[ch]

----------------------------------------------------------------------------
(* C1 *)

\* C1: whenever a command has returned, every channel of the pin layouts and
\* both ground-override channels are floating inputs; and every execution of
\* testChip, whatever its outcome (all pass, some fail, unexpected test data,
\* missing separator, unsupported pin count, no current chip), leaves floating
\* inputs behind when it starts from floating inputs.
C1_NoChannelLeftDriven ==
    /\ AllFloating(pins)
    /\ \A j \in 1..Len(trace) :
           AllFloating(ApplyOps([ch \in Channels |-> Floating], TestOps(trace[j])))

\* a scan has tested a chip whose test was given up at an error in the test
\* data after a test case that drove a supply pin and a ground pin
C1_Witness ==
    /\ cmd.kind = "scan"
    /\ \E j \in 1..Len(trace) :
           /\ trace[j].result \in {"Unexpected test data", "Expected space/newline"}
           /\ \E m \in 1..Len(trace[j].runs) :
                  /\ ChansOf(trace[j].runs[m], {"V"}) # {}
                  /\ GroundChans(trace[j].runs[m]) # {}

----------------------------------------------------------------------------
(* C2 *)

PhasesInOrder(r) ==
    LET G == OpsOn(r, Setting, GroundChans(r))
        V == OpsOn(r, Setting, ChansOf(r, {"V"}))
        I == OpsOn(r, {"pinMode"}, ChansOf(r, {"0", "1", "C", "c"}))
        O == OpsOn(r, Setting, ChansOf(r, {"H", "L"}))
        E == Edges(r)
    IN  /\ Before(G, V) /\ Before(G, I) /\ Before(G, O) /\ Before(G, E)
        /\ Before(V, I) /\ Before(V, O) /\ Before(V, E)
        /\ Before(I, O) /\ Before(I, E)
        /\ Before(O, E)
        \* what each phase leaves on its channels
        /\ \A ch \in GroundChans(r) : AfterLast(r, G, ch) = DrivenLow
        /\ \A ch \in ChansOf(r, {"V"}) : AfterLast(r, V, ch) = DrivenHigh
        /\ \A ch \in ChansOf(r, {"0", "C"}) : AfterLast(r, I, ch) = DrivenLow
        /\ \A ch \in ChansOf(r, {"1", "c"}) : AfterLast(r, I, ch) = DrivenHigh
        /\ \A ch \in ChansOf(r, {"H", "L"}) : ~AfterLast(r, O, ch).ddr

\* C2: in every execution of singleTest the phases are strictly ordered:
\* every G pin (and its ground override) is driven low before any V pin is
\* driven high, every V pin is driven high before any 0/1/C/c pin is driven,
\* every 0/1/C/c pin is driven to its level before any H or L pin is armed as
\* an input, and no pulse edge is issued before every H and L pin is armed.
C2_DrivePhasesOrdered == \A r \in Runs : PhasesInOrder(r)

\* a test case with all five phases, one of its grounds with an override
C2_Witness ==
    \E r \in Runs :
        /\ GROUND_PINA \in GroundChans(r)
        /\ ChansOf(r, {"V"}) # {}
        /\ ChansOf(r, {"0", "1"}) # {}
        /\ ChansOf(r, {"H", "L"}) # {}
        /\ Edges(r) # {}

----------------------------------------------------------------------------
(* C3 *)

SettledThenSampledOnce(r) ==
    LET S == {j \in 1..Len(r.ops) :
                  r.ops[j].op = "delay" /\ r.ops[j].val = "DATA_SETTLE_TIME"}
        others == {j \in 1..Len(r.ops) : r.ops[j].op # "digitalRead"} \ S
        reads == {j \in 1..Len(r.ops) : r.ops[j].op = "digitalRead"}
    IN  /\ Cardinality(S) = 1
        /\ \A j \in S : r.ops[j].ms = DATA_SETTLE_TIME
        /\ Before(others, S)
        /\ Before(S, reads)
        /\ \A ch \in ChansOf(r, {"H", "L"}) : Cardinality(OpsOn(r, {"digitalRead"}, {ch})) = 1
        /\ reads = OpsOn(r, {"digitalRead"}, ChansOf(r, {"H", "L"}))

\* C3: every execution of singleTest makes exactly one settle wait, with or
\* without pulse directives, after the pulse phase (the pulsed pins restored)
\* and before any channel is sampled; each H and each L pin is then read
\* exactly once, and no other pin is read.
C3_OneSettleThenOneSample == \A r \in Runs : SettledThenSampledOnce(r)

\* a command ran a test case with a clock pulse and one without, both with
\* pins to sample
C3_Witness ==
    /\ \E r \in Runs : PinsWith(r, {"C", "c"}) # {} /\ PinsWith(r, {"H", "L"}) # {}
    /\ \E r \in Runs : PinsWith(r, {"C", "c"}) = {} /\ PinsWith(r, {"H", "L"}) # {}

----------------------------------------------------------------------------
(* C4 *)

\* the value test case r read on the channel of pin i
ValueRead(r, i) ==
    LET ch == PinsMapFor(Len(r.testLine))[i]
    IN  r.ops[CHOOSE j \in 1..Len(r.ops) : r.ops[j].op = "digitalRead" /\ r.ops[j].ch = ch].val

Mismatches(r) ==
    {i \in PinsWith(r, {"H"}) : ValueRead(r, i) # "HIGH"}
        \cup {i \in PinsWith(r, {"L"}) : ValueRead(r, i) # "LOW"}

RECURSIVE SumFailed(_)
SumFailed(runs) == IF runs = <<>> THEN 0 ELSE Head(runs).failed + SumFailed(Tail(runs))

\* C4: the failure count of a test case is the number of its H pins read
\* not-HIGH plus the number of its L pins read not-LOW (no other pin counts, so
\* an H pin read LOW gives a count of at least 1), and the failure total of
\* testChip is the sum of the counts of the test cases it executed, which is
\* what a verbose test reports.
C4_FailureCount ==
    /\ \A r \in Runs : r.failed = Cardinality(Mismatches(r))
    /\ \A j \in 1..Len(trace) :
           /\ trace[j].failures = SumFailed(trace[j].runs)
           /\ (trace[j].verbose /\ trace[j].result = "Done") =>
                  trace[j].out[Len(trace[j].out)]
                      = IF trace[j].failures = 0
                        THEN Msg("Done - passed", trace[j].name, 0)
                        ELSE Msg("Done - FAILED", trace[j].name, trace[j].failures)

\* a verbose test of two test cases ended with one H pin read LOW and one L
\* pin read HIGH in the same test case, and nothing wrong in the other
C4_Witness ==
    /\ cmd.kind = "test"
    /\ trace[1].result = "Done"
    /\ Len(trace[1].runs) = 2
    /\ \E r \in Runs : /\ \E i \in PinsWith(r, {"H"}) : ValueRead(r, i) = "LOW"
                       /\ r.failed >= 1
    /\ \E r \in Runs : \E i \in PinsWith(r, {"L"}) : ValueRead(r, i) = "HIGH"
    /\ trace[1].failures >= 2

----------------------------------------------------------------------------
(* C5 *)

Detected(t) == \E m \in 1..Len(out) : out[m] = Msg("detected", t.name, 0)

\* C5: in a scan a chip is reported detected if and only if its test ran to
\* the end of its test cases and every one of them had no failure; a chip
\* with a failing pin in any test case, or whose test was given up at an
\* error, is not reported, and a chip with no test case is.
C5_DetectedIffAllPass ==
    cmd.kind = "scan" =>
        /\ \A j \in 1..Len(trace) :
               (\E m \in 1..Len(trace[j].out) : trace[j].out[m].msg = "detected")
                   <=> (/\ trace[j].result = "Done"
                        /\ \A m \in 1..Len(trace[j].runs) :
                               Mismatches(trace[j].runs[m]) = {})
        /\ Cardinality({m \in 1..Len(out) : out[m].msg = "detected"})
               = Cardinality({j \in 1..Len(trace) :
                                 /\ trace[j].result = "Done"
                                 /\ \A m \in 1..Len(trace[j].runs) :
                                        Mismatches(trace[j].runs[m]) = {}})
        /\ \A m \in 1..Len(out) :
               out[m].msg = "detected" =>
                   \E j \in 1..Len(trace) : trace[j].name = out[m].name

\* a scan reported a chip with no test case and did not report a chip of
\* which pins failed
C5_Witness ==
    /\ cmd.kind = "scan"
    /\ \E j \in 1..Len(trace) : trace[j].runs = <<>> /\ trace[j].result = "Done"
                                   /\ Detected(trace[j])
    /\ \E j \in 1..Len(trace) : trace[j].result = "Done" /\ trace[j].failures > 0
                                   /\ ~Detected(trace[j])

----------------------------------------------------------------------------
(* The catalog as its format describes it *)

\* where a chip record starts: a $ with no & before it, whose line has no
\* other $ or & and ends with a newline
RecordStarts ==
    {d \in 1..Len(chipData) :
        /\ chipData[d] = "$"
        /\ \A r \in 1..d : chipData[r] # "&"
        /\ \E e \in (d + 1)..Len(chipData) :
               /\ chipData[e] = NL
               /\ \A r \in (d + 1)..(e - 1) : chipData[r] \notin {"$", "&", NL}}

\* the newline that ends the name line of the record at d
NameEnd(d) == Min({e \in (d + 1)..Len(chipData) : chipData[e] = NL})

NameOf(d) == [j \in 1..(NameEnd(d) - d - 1) |-> chipData[d + j]]

\* the part of a record name that the name buffer holds
Kept(name) == SubSeq(name, 1, Min({Len(name), MAX_INPUT}))

\* where the pin-count line of the record at d starts, and the count it declares
CountAt(d) == NameEnd(d) + 1
Declared(d) == atoi(Byte(CountAt(d)), Byte(CountAt(d) + 1))

\* the records a scan for cmd.pins pins has to test
Matching == {d \in RecordStarts : Declared(d) = cmd.pins}

----------------------------------------------------------------------------
(* C6 *)

\* C6: a scan for P pins runs the test on a record of the catalog if and
\* only if the pin count the record declares is P, and no test case of any
\* other record is executed.  (Not so in the code: a
\* scan stops at the first record with an unsupported pin count, and the
\* records after it are not tested.)
C6_ScanTestsRecordsOfThatSize ==
    cmd.kind = "scan" =>
        /\ {trace[j].info : j \in 1..Len(trace)} = {CountAt(d) : d \in Matching}
        /\ \A j \in 1..Len(trace) : trace[j].numberOfPins = cmd.pins

----------------------------------------------------------------------------
(* C7 *)

\* C7: the count a scan for P pins reports is the number of records of the
\* catalog that declare P pins, and each of them has been tested exactly
\* once, in catalog order.  (Not so in the code: a scan that meets a record
\* with an unsupported pin count reports no count and tests no record after it.)
C7_ScanCountsRecordsOfThatSize ==
    cmd.kind = "scan" =>
        /\ out # <<>>
        /\ out[Len(out)] = Msg("Chip scan completed", <<>>, Cardinality(Matching))
        /\ [j \in 1..Len(trace) |-> trace[j].info] = Sorted({CountAt(d) : d \in Matching})

----------------------------------------------------------------------------
(* C8 *)

\* C8: locating a name succeeds if and only if a record before the sentinel
\* has exactly that name (a record whose name only starts with it, or an
\* unknown name, is a miss), and then the cursor designates the first such
\* record, in catalog order, and the current name is that name.
C8_LocateExactFirstMatch ==
    cmd.kind = "locate" =>
        LET M == {d \in RecordStarts : NameOf(d) = cmd.which}
        IN  /\ cmd.found <=> M # {}
            /\ out = <<Msg(IF M # {} THEN "found" ELSE "not found", cmd.which, 0)>>
            /\ M # {} => /\ chipInfo = CountAt(Min(M))
                         /\ CStr(chipName) = cmd.which

\* the name was found after a record whose name starts with it
C8_Witness ==
    /\ cmd.kind = "locate"
    /\ cmd.found
    /\ \E d \in RecordStarts :
           /\ CountAt(d) < chipInfo
           /\ Len(NameOf(d)) > Len(cmd.which)
           /\ SubSeq(NameOf(d), 1, Len(cmd.which)) = cmd.which

----------------------------------------------------------------------------
(* C9 *)

NoCurrentChip == <<Msg("No current chip", <<>>, 0)>>

\* C9: a locate that fails leaves the cursor empty and the current name
\* empty, also when an earlier locate had succeeded; a test command given
\* next reports that there is no current chip, executes no test case and
\* leaves the channels as they are.
C9_FailedLocateClearsCursor ==
    [][ /\ (cmd'.kind = "locate" /\ ~cmd'.found) =>
               (chipInfo' = 0 /\ CStr(chipName') = <<>>)
        /\ (cmd.kind = "locate" /\ ~cmd.found /\ cmd'.kind = "test") =>
               /\ out' = NoCurrentChip
               /\ Len(trace') = 1 /\ trace'[1].runs = <<>>
               /\ pins' = pins
               /\ chipInfo' = 0 ]_vars

\* a locate has failed when a chip was located
C9_Witness == cmd.kind = "locate" /\ ~cmd.found /\ cmd.located /\ chipInfo = 0

----------------------------------------------------------------------------
(* C10 *)

\* C10: a test command given while the cursor is empty reports that there
\* is no current chip and does nothing else: no channel is written or
\* re-moded, no test case is executed, and the cursor stays empty.
C10_TestWithoutChipDoesNothing ==
    (cmd.kind = "test" /\ trace[1].info = 0) =>
        /\ trace[1].result = "No current chip"
        /\ out = NoCurrentChip
        /\ TestOps(trace[1]) = <<>>
        /\ trace[1].runs = <<>>
        /\ chipInfo = 0

\* a test command was given with no chip located
C10_Witness == cmd.kind = "test" /\ trace[1].info = 0 /\ out = NoCurrentChip

----------------------------------------------------------------------------
(* C11 *)

\* a name with its lower-case letters replaced by the upper-case ones
Normalized(name) ==
    [j \in 1..Len(name) |->
        IF \E i \in 1..26 : LowerCase[i] = name[j]
        THEN UpperCase[CHOOSE i \in 1..26 : LowerCase[i] = name[j]]
        ELSE name[j]]

\* the line typed without its spaces and carriage returns
Unspaced(typed) == SelectSeq(typed, LAMBDA c : c # SP /\ c # "\r")

\* the request as it is compared: the line typed without its spaces, in
\* upper case, cut to the MAX_INPUT - 1 characters the input line holds
Entered(typed) ==
    LET u == Normalized(Unspaced(typed))
    IN  SubSeq(u, 1, Min({Len(u), MAX_INPUT - 1}))

\* C11 as stated: a record is found whenever its name and the name asked
\* for are equal after both are put in the same letter case.  (Not so: only
\* the name typed is put in upper case, and a record name with a lower-case
\* letter is compared as it is.)
C11_FoundWhenEqualIgnoringCase ==
    cmd.kind = "locate" =>
        ((\E d \in RecordStarts :
              Normalized(NameOf(d)) = Normalized(Unspaced(cmd.typed))) => cmd.found)

\* C11, amended: the name typed is put in upper case (spaces dropped, at
\* most MAX_INPUT - 1 characters kept) and is then compared byte for byte
\* with the record names as they are in the catalog: a record is found if
\* and only if its name is the upper-cased request, so a record whose name
\* has a lower-case letter is never found.
C11_FoundWhenEqualToUpperCasedRequest ==
    cmd.kind = "locate" =>
        /\ cmd.which = Entered(cmd.typed)
        /\ cmd.found <=> \E d \in RecordStarts : NameOf(d) = Entered(cmd.typed)
        /\ cmd.found => \E d \in RecordStarts :
                            /\ chipInfo = CountAt(d)
                            /\ NameOf(d) = Normalized(NameOf(d))

\* a name typed with a lower-case letter missed the record whose name
\* differs from it only in letter case
C11_Witness ==
    /\ cmd.kind = "locate"
    /\ ~cmd.found
    /\ cmd.typed # cmd.which
    /\ \E d \in RecordStarts :
           /\ Normalized(NameOf(d)) = cmd.which
           /\ NameOf(d) # cmd.which

----------------------------------------------------------------------------
(* C12 *)

\* the tests of the scan just made that reported their chip
DetectedTests ==
    {j \in 1..Len(trace) : \E m \in 1..Len(trace[j].out) : trace[j].out[m].msg = "detected"}

\* C12 as stated: after a scan that detected a record, that record is the
\* current chip (name and catalog position).  (Not so: a scan that reaches
\* the end of the catalog leaves no current chip.)
C12_ScanLeavesDetectedChipCurrent ==
    (cmd.kind = "scan" /\ DetectedTests # {}) =>
        \E j \in DetectedTests : /\ chipInfo = trace[j].info
                                 /\ CStr(chipName) = trace[j].name

\* C12, amended: a scan never leaves a record it detected as the current
\* chip.  A scan that reaches the end of the catalog leaves no current chip,
\* whatever it detected; a scan that stops at a record with an unsupported
\* pin count leaves that record, which it did not test, as the current chip.
C12_ScanLeavesNoDetectedChipCurrent ==
    cmd.kind = "scan" =>
        /\ \A j \in DetectedTests : chipInfo # trace[j].info
        /\ cmd.found => chipInfo = 0
        /\ ~cmd.found =>
               \E d \in RecordStarts :
                   /\ chipInfo = CountAt(d)
                   /\ CStr(chipName) = Kept(NameOf(d))
                   /\ Declared(d) \notin SupportedPins
                   /\ \A e \in RecordStarts : e < d => Declared(e) \in SupportedPins

\* a scan has reached the end of the catalog after it detected a chip
C12_Witness == cmd.kind = "scan" /\ cmd.found /\ DetectedTests # {} /\ chipInfo = 0

----------------------------------------------------------------------------
(* The test cases of a record as the catalog format describes them *)

\* where the record whose pin-count line starts at info ends: the next $, &
\* or the end of the data
RecEnd(info) == Min({q \in info..(Len(chipData) + 1) : Byte(q) \in {"$", "&", NUL}})

\* the words after the pin count of the record, in order
WordStarts(info) ==
    {p \in (info + 2)..(RecEnd(info) - 1) : ~IsSpace(Byte(p)) /\ IsSpace(Byte(p - 1))}

WordAt(info, p) ==
    LET e == Min({q \in p..RecEnd(info) : IsSpace(Byte(q)) \/ q = RecEnd(info)})
    IN  [j \in 1..(e - p) |-> chipData[p + j - 1]]

VectorsOf(info) ==
    LET starts == Sorted(WordStarts(info))
    IN  [i \in 1..Len(starts) |-> WordAt(info, starts[i])]

\* vector v of a record of n pins has a character that is no directive
Malformed(v, n) == \E q \in 1..Len(v) : q <= n /\ v[q] \notin Directives

\* the vectors before the i-th are test lines of n directives
WellFormedBefore(vs, i, n) == \A m \in 1..(i - 1) : Len(vs[m]) = n /\ ~Malformed(vs[m], n)

TestLines(t) == [m \in 1..Len(t.runs) |-> t.runs[m].testLine]

Verdicts == {"detected", "Done - passed", "Done - FAILED"}

\* the channels of the layout for n pins, and the two override channels
LayoutChans(n) == {PinsMapFor(n)[i] : i \in 1..n} \cup {GROUND_PINA, GROUND_PINB}

----------------------------------------------------------------------------
(* C13 *)

\* C13: when vector k of the record under test has a symbol outside
\* {0,1,H,L,V,G,C,c,X} (the vectors before it being well formed), the test
\* executes vectors 1..k-1 and no other, reports unexpected test data, leaves
\* every channel and both override channels floating, and reports neither
\* passed nor detected for the record.
C13_MalformedVectorStopsTest ==
    \A j \in 1..Len(trace) :
        LET t == trace[j]
            n == t.numberOfPins
            vs == VectorsOf(t.info)
            bad == {k \in 1..Len(vs) : Malformed(vs[k], n) /\ WellFormedBefore(vs, k, n)}
        IN  (t.info # 0 /\ t.result # "Unsupported number of pins" /\ bad # {}) =>
                \A k \in bad :
                    /\ t.result = "Unexpected test data"
                    /\ TestLines(t) = SubSeq(vs, 1, k - 1)
                    /\ \A ch \in LayoutChans(n) :
                           ApplyOps([c \in Channels |-> DrivenHigh], TestOps(t))[ch] = Floating
                    /\ AllFloating(pins)
                    /\ \A m \in 1..Len(t.out) : t.out[m].msg \notin Verdicts
                    /\ \A m \in 1..Len(out) :
                           out[m].msg \in Verdicts => out[m].name # t.name

\* a test stopped at its third vector, with a vector after it
C13_Witness ==
    \E j \in 1..Len(trace) :
        /\ trace[j].result = "Unexpected test data"
        /\ Len(trace[j].runs) = 2
        /\ Len(VectorsOf(trace[j].info)) = 4
        /\ Malformed(VectorsOf(trace[j].info)[3], trace[j].numberOfPins)

----------------------------------------------------------------------------
(* C14 *)

\* the two characters of the pin-count field that starts at info are read
\* as the number v: two digits, or one digit before something else, or one
\* digit after a space or a plus sign
DecodesTo(info, v) ==
    LET a == Byte(info)
        b == Byte(info + 1)
    IN  \/ IsDigit(a) /\ IsDigit(b) /\ v = 10 * DigitVal(a) + DigitVal(b)
        \/ IsDigit(a) /\ ~IsDigit(b) /\ v = DigitVal(a)
        \/ a \in {SP, NL, "+"} /\ IsDigit(b) /\ v = DigitVal(b)

----------------------------------------------------------------------------
(* C15 *)

\* C15: an error met in one record of a scan (a pin count that is no number
\* or not supported, a malformed vector) ends the step of that record only:
\* the scan goes on to the end of the catalog, tests every later record that
\* declares the pin count asked for, and prints its summary.  (Not so in the
\* code: at a pin count that is no number or not supported the scan returns.)
C15_ScanGoesOnAfterAnError ==
    cmd.kind = "scan" =>
        /\ cmd.found
        /\ out # <<>> /\ out[Len(out)].msg = "Chip scan completed"
        /\ \A d \in Matching : \E j \in 1..Len(trace) : trace[j].info = CountAt(d)

----------------------------------------------------------------------------
(* C16 *)

PulseWaits(r) ==
    {j \in 1..Len(r.ops) : r.ops[j].op = "delay" /\ r.ops[j].val = "CLOCK_PULSE_WIDTH"}

\* the writes of test case r to channel ch, in order
WritesTo(r, ch) == Sorted(OpsOn(r, {"digitalWrite"}, {ch}))

PulseOnlyForClocks(r) ==
    LET clocked == ChansOf(r, {"C", "c"})
        used == ChansOf(r, Directives) \cup GroundChans(r)
    IN  /\ PulseWaits(r) # {} <=> clocked # {}
        /\ Cardinality(PulseWaits(r)) <= 1
        /\ \A j \in PulseWaits(r) : r.ops[j].ms = CLOCK_PULSE_WIDTH
        \* without a clock no channel is written twice: no level is toggled
        /\ clocked = {} => \A ch \in used : Len(WritesTo(r, ch)) <= 1
        \* without a clock nothing comes between the arming of the outputs
        \* and the settle wait
        /\ clocked = {} =>
               \A j \in 1..Len(r.ops) :
                   (r.ops[j].op = "delay" /\ j > 1) =>
                       /\ r.ops[j].val = "DATA_SETTLE_TIME"
                       /\ r.ops[j - 1].op = "pinMode"
        \* with a clock the wait is between the edge and the restoring write
        /\ \A ch \in clocked, j \in PulseWaits(r) :
               /\ Len(WritesTo(r, ch)) = 3
               /\ WritesTo(r, ch)[2] < j /\ j < WritesTo(r, ch)[3]
               /\ r.ops[WritesTo(r, ch)[3]].val = r.ops[WritesTo(r, ch)[1]].val
               /\ r.ops[WritesTo(r, ch)[2]].val # r.ops[WritesTo(r, ch)[1]].val

\* C16: a test case with neither C nor c has no pulse phase: no pulse wait
\* is made and no level is toggled between the arming of the outputs and the
\* settle wait; the pulse wait is made if and only if the test case has at
\* least one C or c.
C16_PulseWaitOnlyWithClocks == \A r \in Runs : PulseOnlyForClocks(r)

\* a command ran a test case that drives inputs and arms outputs without any
\* clock, and a test case with a falling clock
C16_Witness ==
    /\ \E r \in Runs : /\ PinsWith(r, {"C", "c"}) = {}
                       /\ PinsWith(r, {"0", "1"}) # {}
                       /\ PinsWith(r, {"H", "L"}) # {}
                       /\ PulseWaits(r) = {}
    /\ \E r \in Runs : PinsWith(r, {"c"}) # {} /\ PulseWaits(r) # {}

----------------------------------------------------------------------------
(* C17 *)

\* the channels test case r has to leave alone: those of its X pins, and the
\* override channel of pin 7 or 8 when that pin is an X pin
IgnoredChans(r) ==
    ChansOf(r, {"X"})
        \cup (IF DUT_GROUND_A \in PinsWith(r, {"X"}) THEN {GROUND_PINA} ELSE {})
        \cup (IF DUT_GROUND_B \in PinsWith(r, {"X"}) THEN {GROUND_PINB} ELSE {})

\* C17: singleTest never touches a pin whose directive is X: it makes no
\* mode change, no write and no read on the channel of such a pin in any
\* phase, so the channel has the mode and level after the test case that it
\* had before it, whatever they were.
C17_IgnoredPinsUntouched ==
    \A r \in Runs :
        \A ch \in IgnoredChans(r) :
            /\ \A j \in 1..Len(r.ops) : r.ops[j].ch # ch
            /\ \A before \in {Floating, PulledUp, DrivenLow, DrivenHigh} :
                   ApplyOps([c \in Channels |-> before], r.ops)[ch] = before

\* a test case had an X on a pin that the test case before it drove high
C17_Witness ==
    \E j \in 1..Len(trace) : \E m \in 2..Len(trace[j].runs) :
        \E i \in PinsWith(trace[j].runs[m], {"X"}) :
            trace[j].runs[m - 1].testLine[i] = "1"

----------------------------------------------------------------------------
(* C18 *)

\* C18: a list command prints the name of every record before the & of the
\* catalog, each once and in catalog order, and nothing of the header, the
\* pin-count lines or the test lines.  What it prints is determined by the
\* catalog alone, so every list command prints the same sequence, whatever
\* was done before it.
C18_ListPrintsEveryNameInOrder ==
    cmd.kind = "list" =>
        LET starts == Sorted(RecordStarts)
        IN  /\ out = [i \in 1..Len(starts) |-> Msg("name", NameOf(starts[i]), 0)]
            /\ AllFloating(pins)
            /\ trace = <<>>

\* a list command printed two names while a chip was located
C18_Witness ==
    /\ cmd.kind = "list"
    /\ Len(out) = 2
    /\ out[1] # out[2]
    /\ chipInfo # 0

----------------------------------------------------------------------------
(* C19 *)

\* the layout has exactly N entries, for the pins 1..N, on N different
\* channels, none of them a ground-override channel
ProperLayout(N) ==
    LET map == PinsMapFor(N)
    IN  /\ Len(map) = N
        /\ DOMAIN map = 1..N
        /\ \A i, j \in 1..N : map[i] = map[j] => i = j
        /\ \A i \in 1..N : map[i] \in Channels \ {GROUND_PINA, GROUND_PINB}

\* C19: for every supported pin count N the pin layout selected for N has
\* exactly N entries, one for each of the pins 1..N, maps different pins to
\* different channels and contains neither ground-override channel; and the
\* layout in use is always the one of the current pin count.
C19_LayoutsProper ==
    /\ \A N \in SupportedPins : ProperLayout(N)
    /\ numberOfPins \in SupportedPins => pinsMap = numberOfPins
    /\ \A r \in Runs :
           /\ Len(r.testLine) \in SupportedPins
           /\ \A j \in 1..Len(r.ops) :
                  r.ops[j].op # "delay" => r.ops[j].ch \in LayoutChans(Len(r.testLine))

\* a scan with the 14-pin layout has driven pin 7 and its ground override
C19_Witness ==
    /\ cmd.kind = "scan"
    /\ numberOfPins = 14 /\ pinsMap = 14
    /\ \E r \in Runs : /\ OpsOn(r, Setting, {PinsMapFor(14)[DUT_GROUND_A]}) # {}
                       /\ OpsOn(r, Setting, {GROUND_PINA}) # {}

----------------------------------------------------------------------------
(* C20 *)

\* the record whose pin-count line starts at info declares a supported pin
\* count n and has only test lines of n directives
WellFormedRecord(info, n) ==
    /\ info # 0
    /\ n \in SupportedPins
    /\ DecodesTo(info, n)
    /\ \A m \in 1..Len(VectorsOf(info)) :
           Len(VectorsOf(info)[m]) = n /\ ~Malformed(VectorsOf(info)[m], n)

\* C20: when a chip has been located and, in the test that follows, every H
\* pin is read HIGH and every L pin is read LOW, the test executes all the k
\* test cases of the record, reports each of them as ok and the chip as
\* passed, and counts no failure.
C20_ExpectedReadingsPass ==
    (/\ cmd.kind = "test"
     /\ WellFormedRecord(trace[1].info, trace[1].numberOfPins)
     /\ \A r \in Runs : Mismatches(r) = {}) =>
        LET t == trace[1]
            k == Len(VectorsOf(t.info))
        IN  /\ t.result = "Done"
            /\ TestLines(t) = VectorsOf(t.info)
            /\ t.failures = 0
            /\ \A m \in 1..k : t.runs[m].failed = 0
            /\ Cardinality({m \in 1..Len(out) : out[m].msg = "ok"}) = k
            /\ \A m \in 1..Len(out) : out[m].msg \notin {"Failed test", "pin mismatch"}
            /\ out[Len(out)] = Msg("Done - passed", t.name, 0)

\* a located chip with two test cases, both with pins expected HIGH and LOW,
\* was tested and passed
C20_Witness ==
    /\ cmd.kind = "test"
    /\ trace[1].info # 0
    /\ trace[1].result = "Done"
    /\ Len(trace[1].runs) = 2
    /\ \A r \in Runs : PinsWith(r, {"H"}) # {} /\ PinsWith(r, {"L"}) # {}
    /\ trace[1].failures = 0

----------------------------------------------------------------------------
(* C21 *)

\* C21: neither a test nor a list command changes the current chip (its
\* position and its name), so after a chip has been located every test
\* command, however many there are and whatever list commands come between,
\* tests that chip, from its first test case.
C21_TestAndListKeepCursor ==
    [][ /\ cmd'.kind \in {"test", "list"} =>
               (chipInfo' = chipInfo /\ chipName' = chipName)
        /\ (cmd'.kind = "test" /\ chipInfo # 0) =>
               /\ trace'[1].info = chipInfo
               /\ trace'[1].name = CStr(chipName)
               /\ (WellFormedRecord(chipInfo, trace'[1].numberOfPins)
                       /\ VectorsOf(chipInfo) # <<>>) =>
                      /\ trace'[1].runs # <<>>
                      /\ trace'[1].runs[1].testLine = VectorsOf(chipInfo)[1]
                      /\ trace'[1].runs[1].testNumber = 0 ]_vars

\* a test of the located chip has run, and the chip is still the current one
C21_Witness ==
    /\ cmd.kind = "test"
    /\ chipInfo # 0
    /\ trace[1].info = chipInfo
    /\ Len(trace[1].runs) = 2

----------------------------------------------------------------------------
(* C22 *)

SettleWaits(r) ==
    {j \in 1..Len(r.ops) : r.ops[j].op = "delay" /\ r.ops[j].val = "DATA_SETTLE_TIME"}

\* the registers of channel ch when the j-th operation of r is done (for a
\* wait: while it lasts), the channel having been in state before when the
\* test case began
ChanAt(r, j, ch, before) == RegsAfter([c \in Channels |-> before], r.ops, j)[ch]

\* the pulse of the clock pin on channel ch: at rest before its edge, away
\* from rest during every pulse wait, at rest again during the settle wait
PulsedFrom(r, ch, rest, away) ==
    /\ Edges(r) \cap OpsOn(r, {"digitalWrite"}, {ch}) # {}
    /\ \A before \in {Floating, PulledUp, DrivenLow, DrivenHigh} :
           /\ \A e \in Edges(r) \cap OpsOn(r, {"digitalWrite"}, {ch}) :
                  ChanAt(r, e - 1, ch, before) = rest
           /\ \A w \in PulseWaits(r) : ChanAt(r, w, ch, before) = away
           /\ \A w \in SettleWaits(r) : ChanAt(r, w, ch, before) = rest

\* C22: in a test case with clock pins, every C pin is driven low before the
\* pulse, high during the pulse wait and low again before the settle wait;
\* every c pin is driven high before the pulse, low during the pulse wait
\* and high again before the settle wait; and there is one pulse wait for
\* all the clock pins of the test case, before the one settle wait.
C22_ClockPulse ==
    \A r \in Runs :
        PinsWith(r, {"C", "c"}) # {} =>
            /\ Cardinality(PulseWaits(r)) = 1
            /\ Cardinality(SettleWaits(r)) = 1
            /\ Before(PulseWaits(r), SettleWaits(r))
            /\ \A ch \in ChansOf(r, {"C"}) : PulsedFrom(r, ch, DrivenLow, DrivenHigh)
            /\ \A ch \in ChansOf(r, {"c"}) : PulsedFrom(r, ch, DrivenHigh, DrivenLow)

\* a test case with a rising and a falling clock was run
C22_Witness ==
    \E r \in Runs : /\ PinsWith(r, {"C"}) # {}
                    /\ PinsWith(r, {"c"}) # {}
                    /\ PulseWaits(r) # {}

----------------------------------------------------------------------------
(* C23 *)

\* the operations of r that sample channel ch
ReadsOf(r, ch) == OpsOn(r, {"digitalRead"}, {ch})

\* channel ch is sampled once, after the settle wait, in state mode
SampledAs(r, ch, mode, before) ==
    /\ Cardinality(ReadsOf(r, ch)) = 1
    /\ Before(SettleWaits(r), ReadsOf(r, ch))
    /\ \A j \in SettleWaits(r) \cup ReadsOf(r, ch) : ChanAt(r, j, ch, before) = mode

\* C23: when a test case samples its outputs, the channel of every H pin is
\* an input without pull-up, and has before that been driven low for a
\* moment by this test case; the channel of every L pin is an input with
\* the pull-up on; this whatever state the channels were in when the test
\* case began.
C23_OutputsArmed ==
    \A r \in Runs :
        \A before \in {Floating, PulledUp, DrivenLow, DrivenHigh} :
            /\ \A ch \in ChansOf(r, {"H"}) :
                   /\ SampledAs(r, ch, Floating, before)
                   /\ \E j \in 1..Min(ReadsOf(r, ch)) :
                          /\ r.ops[j].ch = ch
                          /\ ChanAt(r, j, ch, before) = DrivenLow
            /\ \A ch \in ChansOf(r, {"L"}) : SampledAs(r, ch, PulledUp, before)

\* a test case expected high a pin that the test case before it had driven
\* high, and expected low a pin that the test case before it had grounded
C23_Witness ==
    \E j \in 1..Len(trace) : \E m \in 2..Len(trace[j].runs) :
        /\ \E i \in PinsWith(trace[j].runs[m], {"H"}) : trace[j].runs[m - 1].testLine[i] = "1"
        /\ \E i \in PinsWith(trace[j].runs[m], {"L"}) : trace[j].runs[m - 1].testLine[i] = "G"

----------------------------------------------------------------------------
(* C24 *)

\* the operations of r on channel ch, of any kind
TouchesOf(r, ch) == OpsOn(r, {"digitalWrite", "pinMode", "digitalRead"}, {ch})

\* the override channel over is used by test case r exactly when DUT pin
\* dut is a G pin of r, and is then driven low, by one write and one change
\* of mode however many G pins r has
OverrideOnlyFor(r, over, dut) ==
    IF dut \in PinsWith(r, {"G"})
    THEN /\ Cardinality(TouchesOf(r, over)) = 2
         /\ \A before \in {Floating, PulledUp, DrivenLow, DrivenHigh} :
                /\ ChanAt(r, Max(TouchesOf(r, over)), over, before) = DrivenLow
                /\ ChanAt(r, Len(r.ops), over, before) = DrivenLow
    ELSE TouchesOf(r, over) = {}

\* C24: singleTest drives the ground-override channel GROUND_PINA low exactly
\* when the test case has G on DUT pin 7, and GROUND_PINB low exactly when it
\* has G on DUT pin 8; a G on another pin, or another directive on pin 7 or
\* 8, brings no operation on an override channel.
C24_OverrideOnlyForGroundOn7And8 ==
    \A r \in Runs :
        /\ OverrideOnlyFor(r, GROUND_PINA, DUT_GROUND_A)
        /\ OverrideOnlyFor(r, GROUND_PINB, DUT_GROUND_B)

\* test cases were run with G on pins 7 and 8 and on another pin, and with
\* other directives on pins 7 and 8
C24_Witness ==
    /\ \E r \in Runs : /\ {DUT_GROUND_A, DUT_GROUND_B} \subseteq PinsWith(r, {"G"})
                       /\ PinsWith(r, {"G"}) \ {DUT_GROUND_A, DUT_GROUND_B} # {}
    /\ \E r \in Runs : /\ Len(r.testLine) >= DUT_GROUND_B
                       /\ PinsWith(r, {"G"}) \cap {DUT_GROUND_A, DUT_GROUND_B} = {}
                       /\ PinsWith(r, {"0", "1", "H", "L"}) \cap {DUT_GROUND_A, DUT_GROUND_B} # {}
                       /\ TouchesOf(r, GROUND_PINA) \cup TouchesOf(r, GROUND_PINB) = {}

----------------------------------------------------------------------------
(* C25 *)

\* the registers when the m-th test case of test t begins: all chip pins and
\* the two ground pins were made inputs, then the test cases before the m-th
\* were executed, and nothing else
EntryRegs(t, m) ==
    ApplyOps([c \in Channels |-> Floating],
             t.pre \o Flatten([k \in 1..(m - 1) |-> t.runs[k].ops]))

\* C25: during every test case of a chip, the second and later ones
\* included, the channel of every pin whose directive is X is a floating
\* input: not driven and not pulled up.  (Not so: nothing is done between
\* two test cases, so an X pin keeps what the test case before left.)
C25_IgnoredPinsFloat ==
    \A j \in 1..Len(trace) : \A m \in 1..Len(trace[j].runs) :
        \A ch \in ChansOf(trace[j].runs[m], {"X"}) :
            /\ EntryRegs(trace[j], m)[ch] = Floating
            /\ EntryRegs(trace[j], m + 1)[ch] = Floating

----------------------------------------------------------------------------
(* C26 *)

\* the positions of the words after the pin count of the record, in order
WordPlaces(info) == Sorted(WordStarts(info))

\* C26: every test line given to singleTest is a whole line of the record:
\* it has exactly as many characters as the chip has pins, all of them
\* directives, and white space follows it in the catalog.  A line with
\* fewer or more characters is not executed: the test stops there with an
\* error message, after the test cases before it, and all channels are made
\* floating inputs.
C26_OnlyWholeLinesRun ==
    \A j \in 1..Len(trace) :
        LET t == trace[j]
            n == t.numberOfPins
            vs == VectorsOf(t.info)
        IN  (t.info # 0 /\ t.result # "Unsupported number of pins") =>
                /\ Len(t.runs) <= Len(vs)
                /\ \A m \in 1..Len(t.runs) :
                       /\ t.runs[m].testLine = vs[m]
                       /\ Len(t.runs[m].testLine) = n
                       /\ \A q \in 1..n : t.runs[m].testLine[q] \in Directives
                       /\ IsSpace(Byte(WordPlaces(t.info)[m] + n))
                /\ \A k \in 1..Len(vs) :
                       (Len(vs[k]) # n /\ WellFormedBefore(vs, k, n)) =>
                           /\ Len(t.runs) = k - 1
                           /\ t.result = IF Len(vs[k]) > n /\ ~Malformed(vs[k], n)
                                         THEN "Expected space/newline"
                                         ELSE "Unexpected test data"
                           /\ t.out[Len(t.out)].msg = t.result
                           /\ t.post = setAllPinsToInput(n, PinsMapFor(n))
                           /\ \A ch \in LayoutChans(n) \cup {GROUND_PINA, GROUND_PINB} :
                                  ApplyOps([c \in Channels |-> DrivenHigh], TestOps(t))[ch]
                                      = Floating
                           /\ AllFloating(pins)

\* a command stopped one test at a line one character too long and another
\* at a line one character too short, each after one test case
C26_Witness ==
    /\ \E j \in 1..Len(trace) :
           /\ trace[j].result = "Expected space/newline"
           /\ Len(trace[j].runs) = 1
           /\ Len(VectorsOf(trace[j].info)[2]) = trace[j].numberOfPins + 1
    /\ \E j \in 1..Len(trace) :
           /\ trace[j].result = "Unexpected test data"
           /\ Len(trace[j].runs) = 1
           /\ Len(VectorsOf(trace[j].info)[2]) = trace[j].numberOfPins - 1

----------------------------------------------------------------------------
(* C27 *)

\* C27: a test of a chip whose test lines are all well formed executes every
\* one of them once, in the order of the catalog and one after the other,
\* stops at the $ of the next chip, the & or the end of the data without
\* executing a line of a chip that follows, and returns with its verdict;
\* and every command returns with its outcome: a list or a scan after no
\* more names and no more tests than the catalog has chips, a chip code
\* with found or not found, a test with its last message.
C27_CommandsRunToTheEnd ==
    /\ cmd.kind \in {"locate", "test", "scan"} => out # <<>>
    /\ cmd.kind = "locate" => out[Len(out)].msg \in {"found", "not found"}
    /\ (cmd.kind = "scan" /\ cmd.found) => out[Len(out)].msg = "Chip scan completed"
    /\ cmd.kind \in {"list", "scan"} =>
           Cardinality({m \in 1..Len(out) : out[m].msg \in {"name", "detected"}})
               <= Cardinality({d \in 1..Len(chipData) : chipData[d] = "$"})
    /\ cmd.kind = "scan" => Len(trace) <= Cardinality(RecordStarts)
    /\ \A j \in 1..Len(trace) :
           LET t == trace[j]
               vs == VectorsOf(t.info)
           IN  WellFormedRecord(t.info, t.numberOfPins) =>
                   /\ t.result = "Done"
                   /\ TestLines(t) = vs
                   /\ \A m \in 1..Len(t.runs) : t.runs[m].testNumber = m - 1
                   /\ TestOps(t) = t.pre \o Flatten([m \in 1..Len(vs) |-> t.runs[m].ops])
                                       \o t.post
                   /\ t.verbose => t.out[Len(t.out)].msg \in Verdicts

\* a located chip with two test lines was tested to its end, and the chip
\* that follows it in the catalog has test lines
C27_Witness ==
    /\ cmd.kind = "test"
    /\ chipInfo # 0
    /\ trace[1].result = "Done"
    /\ Len(trace[1].runs) = 2
    /\ Byte(RecEnd(chipInfo)) = "$"
    /\ VectorsOf(NameEnd(RecEnd(chipInfo)) + 1) # <<>>

----------------------------------------------------------------------------
(* C28 *)

\* in registers regs of a chip of n pins, the override channel over of DUT
\* pin dut is driven low while the layout channel of that pin is driven high
Opposed(regs, n, over, dut) ==
    /\ n >= dut
    /\ regs[over] = DrivenLow
    /\ regs[PinsMapFor(n)[dut]] = DrivenHigh

\* C28: at no moment of a test is a ground-override channel driven low while
\* the layout channel of the same DUT pin (7 or 8) is driven high.  (Not so:
\* an override channel stays driven low until the end of the test, so a
\* later test line with 1, c or V on that pin drives against it.)
C28_OverrideNeverAgainstDrivenHigh ==
    \A j \in 1..Len(trace) : \A m \in 1..Len(trace[j].runs) :
        \A k \in 0..Len(trace[j].runs[m].ops) :
            LET n == trace[j].numberOfPins
                regs == RegsAfter(EntryRegs(trace[j], m), trace[j].runs[m].ops, k)
            IN  /\ ~Opposed(regs, n, GROUND_PINA, DUT_GROUND_A)
                /\ ~Opposed(regs, n, GROUND_PINB, DUT_GROUND_B)

----------------------------------------------------------------------------
(* C29 *)

\* C29: every name that the list command prints is found when it is entered
\* as a chip code, names as long as the name buffer or longer included.
\* (Not so: the input line holds MAX_INPUT - 1 characters and the name buffer
\* MAX_INPUT, so a name of MAX_INPUT characters or more is listed and never
\* found.)
C29_ListedNamesAreFound ==
    (cmd.kind = "locate" /\ \E i \in 1..Len(listChips) : listChips[i] = cmd.typed) =>
        cmd.found

----------------------------------------------------------------------------
(* C30 *)

\* C30: whenever a command has returned, either there is no current chip
\* (chipInfo is NULL) or chipInfo is at the first character of the pin-count
\* line of a chip of the catalog and chipName holds the name of that chip,
\* as much of it as the name buffer takes; this also after a scan that
\* stopped at an unsupported pin count.
C30_CursorEmptyOrOnNamedRecord ==
    \/ chipInfo = 0
    \/ \E d \in RecordStarts :
           /\ chipInfo = CountAt(d)
           /\ CStr(chipName) = Kept(NameOf(d))

\* a scan stopped at a chip, not the first of the catalog, whose name is
\* longer than the name buffer
C30_Witness ==
    /\ cmd.kind = "scan"
    /\ ~cmd.found
    /\ chipInfo # 0
    /\ \E d \in RecordStarts :
           /\ chipInfo = CountAt(d)
           /\ Len(NameOf(d)) > MAX_INPUT
           /\ Len(CStr(chipName)) = MAX_INPUT
           /\ \E e \in RecordStarts : e < d

----------------------------------------------------------------------------
(* C31 *)

\* the value of nameLength after the characters of a name: it counts the
\* characters saved in chipName, and stops at MAX_INPUT; the characters go to
\* the cells before nameLength and the terminating 0 byte to the cell nameLength
nameLength(chars) == IF Len(chars) < MAX_INPUT THEN Len(chars) ELSE MAX_INPUT

\* a character that processIncomingByte neither discards nor takes as the end
\* of the line
Ordinary(c) == c \notin {NL, "\r", SP}

\* C31: no fixed-size buffer is overrun.  input_pos stays within
\* 0..MAX_INPUT-1, the cells of input_line: a newline stores the terminator
\* in the cell input_pos and puts input_pos back to 0, an ordinary character
\* is stored in upper case in the cell input_pos, which then goes up by one,
\* while input_pos is under MAX_INPUT-1, and changes nothing once it is
\* MAX_INPUT-1; of every name of the catalog at most MAX_INPUT characters are
\* saved, so that they and the terminator fall in the cells 0..MAX_INPUT of
\* chipName, and the cells after them are left as they were; and every test
\* line taken has the numberOfPins characters of the chip, at most MAX_PINS
C31_NoBufferOverrun ==
    [][ /\ input_pos' \in LineCells
        /\ DOMAIN input_line' = LineCells
        /\ (serial # <<>> /\ Head(serial) = NL) =>
               /\ input_pos' = 0
               /\ input_line' = [input_line EXCEPT ![input_pos] = NUL]
        /\ (serial # <<>> /\ Ordinary(Head(serial)) /\ input_pos < MAX_INPUT - 1) =>
               /\ input_pos' = input_pos + 1
               /\ input_line' = [input_line EXCEPT ![input_pos] = toupper(Head(serial))]
        /\ (serial # <<>> /\ Ordinary(Head(serial)) /\ input_pos = MAX_INPUT - 1) =>
               /\ input_pos' = input_pos
               /\ input_line' = input_line
        /\ \A i \in 1..Len(Pieces) :
               LET chars == Pieces[i].chars
                   buf == collect(chipName, chars, TRUE)
               IN  /\ nameLength(chars) \in NameCells
                   /\ CStr(buf) = SubSeq(chars, 1, nameLength(chars))
                   /\ \A j \in NameCells : j > nameLength(chars) => buf[j] = chipName[j]
        /\ DOMAIN chipName' = NameCells
        /\ Len(CStr(chipName')) <= MAX_INPUT
        /\ \A j \in 1..Len(trace') :
               trace'[j].runs # <<>> =>
                   /\ trace'[j].numberOfPins <= MAX_PINS
                   /\ \A m \in 1..Len(trace'[j].runs) :
                          Len(trace'[j].runs[m].testLine) = trace'[j].numberOfPins ]_vars

\* the line typed has filled input_line, the rest of it has been discarded
\* and only its newline is left to read, while chipName holds MAX_INPUT
\* characters of a longer name and a test line of MAX_PINS characters was taken
C31_Witness ==
    /\ input_pos = MAX_INPUT - 1
    /\ serial = <<NL>>
    /\ \A j \in LineCells : j < MAX_INPUT - 1 => input_line[j] = "S"
    /\ Len(CStr(chipName)) = MAX_INPUT
    /\ \E d \in RecordStarts : Len(NameOf(d)) > MAX_INPUT /\ CStr(chipName) = Kept(NameOf(d))
    /\ \E j \in 1..Len(trace) :
           /\ trace[j].numberOfPins = MAX_PINS
           /\ \E m \in 1..Len(trace[j].runs) : Len(trace[j].runs[m].testLine) = MAX_PINS

====
